---- MODULE Spec2Model ----
(***************************************************************************)
(* A model of the parsing-to-layout pipeline of elegant-drawerv2:          *)
(*   - the pagination engine      (src/src/utils/layoutUtils.ts 262-717)   *)
(*   - the hierarchical layout    (src/unnamed/part_007, the later variant *)
(*                                 of src/src/utils/layoutUtils.ts 20-162) *)
(*   - the five text parsers                                               *)
(*   - the mind-map tree layout, the edge geometry and the UI handlers     *)
(* Each part has its own specification (SpecPag, SpecLayout, SpecParse,    *)
(* SpecTree, SpecConnect, SpecPath, SpecUi): Init draws an input from      *)
(* bounded sets, the actions apply the function or run the handler.        *)
(***************************************************************************)
EXTENDS Integers, Sequences, FiniteSets, TLC

VARIABLES
  nodes,        \* paginateDiagram: the node list handed in
  edges,        \* paginateDiagram: the edge list handed in
  diagramType,  \* paginateDiagram: the diagram type
  config,       \* paginateDiagram: [maxWidth, maxHeight, preferredBreakPoints]
  pages,        \* paginateDiagram: the outcome [terminated, pages]
  pagPc,        \* "idle" | "input" | "done"
  layoutNodes,  \* positionNodesHierarchically: the node list handed in
  layoutEdges,  \* positionNodesHierarchically: the edge list handed in
  options,      \* positionNodesHierarchically: the options object
  positioned,   \* positionNodesHierarchically: the outcome [threw, nodes, layerOf]
  layPc,        \* "idle" | "input" | "done"
  parser,       \* which parser runs: "class" | "sequence" | "flow" | "usecase" | "mindmap"
  input,        \* the input text, a sequence of classified lines
  result,       \* the ParserResult, or the escaped exception
  parsePc,      \* "idle" | "input" | "done"
  geoArgs,      \* edge geometry: the arguments of the call
  geoOut,       \* edge geometry: what the call returned
  geoPc,        \* "idle" | "input" | "done"
  store,        \* the diagram store: [currentDiagram, error, isLoading]
  handler,      \* the UI handler that parses: "handleDrawCode" | "debouncedParse"
  uiPc          \* the handler's position, "idle" when no handler is modelled

vars == <<nodes, edges, diagramType, config, pages, pagPc,
          layoutNodes, layoutEdges, options, positioned, layPc,
          parser, input, result, parsePc,
          geoArgs, geoOut, geoPc, store, handler, uiPc>>

pagVars == <<nodes, edges, diagramType, config, pages, pagPc>>
layVars == <<layoutNodes, layoutEdges, options, positioned, layPc>>
parseVars == <<parser, input, result, parsePc>>
geoVars == <<geoArgs, geoOut, geoPc>>
uiVars == <<store, handler, uiPc>>

----------------------------------------------------------------------------
(* Arithmetic helpers: Math.min, Math.max, Math.abs, Math.ceil(a / b).     *)

Min(a, b) == IF a <= b THEN a ELSE b
Max(a, b) == IF a >= b THEN a ELSE b
Abs(a) == IF a < 0 THEN -a ELSE a
CeilDiv(a, b) == -((-a) \div b)
SetMin(S) == CHOOSE m \in S : \A k \in S : m <= k
SetMax(S) == CHOOSE m \in S : \A k \in S : m >= k

\* JavaScript's Infinity, as a number above every coordinate of the model.
Infinity == 1000000000

\* {...n, ...over}: the object n with the properties of over added or replaced.
Spread(n, over) ==
  [f \in (DOMAIN n) \cup (DOMAIN over) |-> IF f \in DOMAIN over THEN over[f] ELSE n[f]]

\* The set of ids of a node list.
IdsOf(ns) == {ns[i].id : i \in DOMAIN ns}

\* nodes.find(n => n.id === id): the index of the first such node, 0 if none.
FindIndex(ns, id) ==
  IF \E i \in DOMAIN ns : ns[i].id = id
  THEN SetMin({i \in DOMAIN ns : ns[i].id = id})
  ELSE 0

----------------------------------------------------------------------------
(* The pagination engine.                                                  *)

\* node.width || 120 and node.height || 60 (0 stands for an absent size).
WidthOrDefault(n) == IF n.width = 0 THEN 120 ELSE n.width
HeightOrDefault(n) == IF n.height = 0 THEN 60 ELSE n.height

calculateDiagramBounds(ns) ==
  IF Len(ns) = 0
  THEN [minX |-> 0, minY |-> 0, maxX |-> 0, maxY |-> 0, width |-> 0, height |-> 0]
  ELSE LET minX == SetMin({ns[i].x : i \in DOMAIN ns})
           maxX == SetMax({ns[i].x + WidthOrDefault(ns[i]) : i \in DOMAIN ns})
           minY == SetMin({ns[i].y : i \in DOMAIN ns})
           maxY == SetMax({ns[i].y + HeightOrDefault(ns[i]) : i \in DOMAIN ns})
       IN [minX |-> minX, minY |-> minY, maxX |-> maxX, maxY |-> maxY,
           width |-> maxX - minX, height |-> maxY - minY]

\* The filter of createPageInfo: both endpoints are ids of the page's nodes.
PageEdgeFilter(ns, es) ==
  SelectSeq(es, LAMBDA e : e.from \in IdsOf(ns) /\ e.to \in IdsOf(ns))

createPageInfo(ns, es, pageNumber, totalPages) ==
  LET bounds == calculateDiagramBounds(ns)
      padding == 50
  IN [pageNumber |-> pageNumber,
      totalPages |-> totalPages,
      nodes |-> ns,
      edges |-> PageEdgeFilter(ns, es),
      viewBox |-> [x |-> bounds.minX - padding, y |-> bounds.minY - padding,
                   width |-> bounds.width + 2 * padding,
                   height |-> bounds.height + 2 * padding]]

\* pages.forEach(page => page.totalPages = pages.length)
UpdateTotalPages(ps) == [i \in DOMAIN ps |-> [ps[i] EXCEPT !.totalPages = Len(ps)]]

\* findRelatedNodes: the neighbours of nodeId, in order of first appearance.
RECURSIVE findRelatedFrom(_, _, _, _)
findRelatedFrom(nodeId, es, k, related) ==
  IF k > Len(es) THEN related
  ELSE LET e == es[k]
           other == IF e.from = nodeId THEN e.to
                    ELSE IF e.to = nodeId THEN e.from ELSE -1
           seen == \E j \in DOMAIN related : related[j] = other
       IN findRelatedFrom(nodeId, es, k + 1,
            IF (e.from = nodeId \/ e.to = nodeId) /\ ~seen
            THEN Append(related, other) ELSE related)

findRelatedNodes(nodeId, es) == findRelatedFrom(nodeId, es, 1, <<>>)

\* addRelated without the !visited.has(id) test.
RECURSIVE addRelatedNoVisitedTest(_, _, _, _, _)
addRelatedNoVisitedTest(ns, relatedIds, k, cluster, visited) ==
  IF k > Len(relatedIds) THEN [cluster |-> cluster, visited |-> visited]
  ELSE LET id == relatedIds[k]
           j == FindIndex(ns, id)
       IN IF j # 0
          THEN addRelatedNoVisitedTest(ns, relatedIds, k + 1, Append(cluster, ns[j]),
                                       visited \cup {id})
          ELSE addRelatedNoVisitedTest(ns, relatedIds, k + 1, cluster, visited)

\* The inner forEach of groupClassesByClusters over relatedIds.
RECURSIVE addRelated(_, _, _, _, _)
addRelated(ns, relatedIds, k, cluster, visited) ==
  IF k > Len(relatedIds) THEN [cluster |-> cluster, visited |-> visited]
  ELSE LET id == relatedIds[k]
           j == FindIndex(ns, id)
       IN IF j # 0 /\ id \notin visited
          THEN addRelated(ns, relatedIds, k + 1, Append(cluster, ns[j]), visited \cup {id})
          ELSE addRelated(ns, relatedIds, k + 1, cluster, visited)

RECURSIVE groupClustersFrom(_, _, _, _, _)
groupClustersFrom(ns, es, i, visited, clusters) ==
  IF i > Len(ns) THEN clusters
  ELSE IF ns[i].id \in visited
       THEN groupClustersFrom(ns, es, i + 1, visited, clusters)
       ELSE LET r == addRelated(ns, findRelatedNodes(ns[i].id, es), 1,
                                <<ns[i]>>, visited \cup {ns[i].id})
            IN groupClustersFrom(ns, es, i + 1, r.visited, Append(clusters, r.cluster))

groupClassesByClusters(ns, es) == groupClustersFrom(ns, es, 1, {}, <<>>)

\* The forEach of paginateClassDiagram over the clusters.
RECURSIVE classPagesFrom(_, _, _, _, _, _, _, _)
classPagesFrom(clusters, es, maxWidth, maxHeight, k, ps, currentPage, currentBounds) ==
  IF k > Len(clusters)
  THEN IF Len(currentPage) > 0
       THEN Append(ps, createPageInfo(currentPage, es, Len(ps) + 1, 0))
       ELSE ps
  ELSE LET cluster == clusters[k]
           clusterBounds == calculateDiagramBounds(cluster)
           newMinX == Min(currentBounds.minX, clusterBounds.minX)
           newMaxX == Max(currentBounds.maxX, clusterBounds.maxX)
           newMinY == Min(currentBounds.minY, clusterBounds.minY)
           newMaxY == Max(currentBounds.maxY, clusterBounds.maxY)
           newWidth == newMaxX - newMinX
           newHeight == newMaxY - newMinY
       IN IF Len(currentPage) > 0 /\ (newWidth > maxWidth \/ newHeight > maxHeight)
          THEN classPagesFrom(clusters, es, maxWidth, maxHeight, k + 1,
                 Append(ps, createPageInfo(currentPage, es, Len(ps) + 1, 0)),
                 cluster,
                 [minX |-> clusterBounds.minX, minY |-> clusterBounds.minY,
                  maxX |-> clusterBounds.maxX, maxY |-> clusterBounds.maxY])
          ELSE classPagesFrom(clusters, es, maxWidth, maxHeight, k + 1,
                 ps, currentPage \o cluster,
                 [minX |-> newMinX, minY |-> newMinY, maxX |-> newMaxX, maxY |-> newMaxY])

paginateClassDiagram(ns, es, maxWidth, maxHeight) ==
  UpdateTotalPages(
    classPagesFrom(groupClassesByClusters(ns, es), es, maxWidth, maxHeight, 1, <<>>, <<>>,
      [minX |-> Infinity, minY |-> Infinity, maxX |-> -Infinity, maxY |-> -Infinity]))

\* The forEach of paginateByLevels over the levels.
RECURSIVE levelPagesFrom(_, _, _, _, _, _, _)
levelPagesFrom(levels, es, maxHeight, k, ps, currentPage, currentHeight) ==
  IF k > Len(levels)
  THEN IF Len(currentPage) > 0
       THEN Append(ps, createPageInfo(currentPage, es, Len(ps) + 1, 0))
       ELSE ps
  ELSE LET level == levels[k]
           levelBounds == calculateDiagramBounds(level)
       IN IF Len(currentPage) > 0 /\ currentHeight + levelBounds.height > maxHeight
          THEN levelPagesFrom(levels, es, maxHeight, k + 1,
                 Append(ps, createPageInfo(currentPage, es, Len(ps) + 1, 0)),
                 level, levelBounds.height)
          ELSE levelPagesFrom(levels, es, maxHeight, k + 1,
                 ps, currentPage \o level, currentHeight + levelBounds.height)

paginateByLevels(levels, es, maxWidth, maxHeight) ==
  UpdateTotalPages(levelPagesFrom(levels, es, maxHeight, 1, <<>>, <<>>, 0))

\* [...nodes].sort((a, b) => a.y - b.y): a stable sort by y.
RECURSIVE insertByY(_, _)
insertByY(sorted, n) ==
  IF Len(sorted) = 0 THEN <<n>>
  ELSE IF sorted[Len(sorted)].y <= n.y THEN Append(sorted, n)
  ELSE Append(insertByY(SubSeq(sorted, 1, Len(sorted) - 1), n), sorted[Len(sorted)])

RECURSIVE sortByY(_, _, _)
sortByY(ns, k, sorted) ==
  IF k > Len(ns) THEN sorted ELSE sortByY(ns, k + 1, insertByY(sorted, ns[k]))

\* The forEach of paginateByLayers over the sorted nodes.
RECURSIVE layersFrom(_, _, _, _, _)
layersFrom(sortedNodes, k, layers, currentLayer, currentY) ==
  IF k > Len(sortedNodes)
  THEN IF Len(currentLayer) > 0 THEN Append(layers, currentLayer) ELSE layers
  ELSE LET n == sortedNodes[k]
       IN IF Abs(n.y - currentY) > 30
          THEN layersFrom(sortedNodes, k + 1,
                 IF Len(currentLayer) > 0 THEN Append(layers, currentLayer) ELSE layers,
                 <<n>>, n.y)
          ELSE layersFrom(sortedNodes, k + 1, layers, Append(currentLayer, n), currentY)

paginateByLayers(ns, es, maxWidth, maxHeight) ==
  paginateByLevels(layersFrom(sortByY(ns, 1, <<>>), 1, <<>>, <<>>, -Infinity),
                   es, maxWidth, maxHeight)

\* The filter of paginateByGrid: the node intersects the cell (borders included).
IntersectsCell(n, pageMinX, pageMaxX, pageMinY, pageMaxY) ==
  ~(n.x > pageMaxX \/ n.x + WidthOrDefault(n) < pageMinX
    \/ n.y > pageMaxY \/ n.y + HeightOrDefault(n) < pageMinY)

\* The two nested for loops of paginateByGrid, cell c = py * pagesX + px.
RECURSIVE gridPagesFrom(_, _, _, _, _, _, _, _, _)
gridPagesFrom(ns, es, maxWidth, maxHeight, bounds, pagesX, pagesY, c, ps) ==
  IF c >= pagesX * pagesY THEN ps
  ELSE LET px == c % pagesX
           py == c \div pagesX
           pageMinX == bounds.minX + px * maxWidth
           pageMaxX == pageMinX + maxWidth
           pageMinY == bounds.minY + py * maxHeight
           pageMaxY == pageMinY + maxHeight
           pageNodes == SelectSeq(ns, LAMBDA n :
                          IntersectsCell(n, pageMinX, pageMaxX, pageMinY, pageMaxY))
       IN gridPagesFrom(ns, es, maxWidth, maxHeight, bounds, pagesX, pagesY, c + 1,
            IF Len(pageNodes) > 0
            THEN Append(ps, createPageInfo(pageNodes, es, Len(ps) + 1, 0))
            ELSE ps)

paginateByGrid(ns, es, maxWidth, maxHeight) ==
  LET bounds == calculateDiagramBounds(ns)
      pagesX == CeilDiv(bounds.width, maxWidth)
      pagesY == CeilDiv(bounds.height, maxHeight)
  IN UpdateTotalPages(
       gridPagesFrom(ns, es, maxWidth, maxHeight, bounds, pagesX, pagesY, 0, <<>>))

paginateFlowDiagram(ns, es, maxWidth, maxHeight, preferredBreakPoints) ==
  IF preferredBreakPoints = "layers"
  THEN paginateByLayers(ns, es, maxWidth, maxHeight)
  ELSE paginateByGrid(ns, es, maxWidth, maxHeight)

paginateGenericDiagram(ns, es, maxWidth, maxHeight) ==
  paginateByGrid(ns, es, maxWidth, maxHeight)

\* paginateSequenceDiagram: the for loop over the messages, i the loop index.
RECURSIVE sequencePagesFrom(_, _, _, _, _)
sequencePagesFrom(actors, es, messagesPerPage, i, ps) ==
  IF ~(i < Len(es)) THEN ps
  ELSE sequencePagesFrom(actors, es, messagesPerPage, i + messagesPerPage,
         Append(ps, createPageInfo(actors,
                      SubSeq(es, i + 1, Min(i + messagesPerPage, Len(es))),
                      Len(ps) + 1, 0)))

\* One message more than fits on a page.
MessagesPerPageAndOne(maxHeight) == (maxHeight - 200) \div 60 + 1

\* Math.floor((maxHeight - 200) / 60)
MessagesPerPage(maxHeight) == (maxHeight - 200) \div 60

\* The outcome of a call: the pages returned, or a loop that never ends.
Returned(ps) == [terminated |-> TRUE, pages |-> ps]
Diverged == [terminated |-> FALSE, pages |-> <<>>]

\* With messagesPerPage <= 0 and a message to place, i never reaches edges.length.
paginateSequenceDiagram(ns, es, maxWidth, maxHeight) ==
  LET messagesPerPage == MessagesPerPage(maxHeight)
      actors == SelectSeq(ns, LAMBDA n : n.type = "actor")
  IN IF Len(es) > 0 /\ messagesPerPage <= 0
     THEN Diverged
     ELSE Returned(UpdateTotalPages(sequencePagesFrom(actors, es, messagesPerPage, 0, <<>>)))

\* levels[level].push(node), after while (levels.length <= level) levels.push([]).
RECURSIVE pushAtLevel(_, _, _)
pushAtLevel(levels, level, n) ==
  IF Len(levels) <= level THEN pushAtLevel(Append(levels, <<>>), level, n)
  ELSE [levels EXCEPT ![level + 1] = Append(@, n)]

\* The children a dequeued node adds to the queue, in edge order.
RECURSIVE levelChildren(_, _, _, _, _, _)
levelChildren(ns, es, k, id, level, visited) ==
  IF k > Len(es) THEN <<>>
  ELSE LET j == IF es[k].from = id THEN FindIndex(ns, es[k].to) ELSE 0
           rest == levelChildren(ns, es, k + 1, id, level, visited)
       IN IF j # 0 /\ ns[j].id \notin visited
          THEN <<[node |-> ns[j], level |-> level + 1]>> \o rest
          ELSE rest

\* The while loop of groupNodesByLevel.
RECURSIVE levelsFrom(_, _, _, _, _)
levelsFrom(ns, es, queue, visited, levels) ==
  IF Len(queue) = 0 THEN levels
  ELSE LET n == queue[1].node
           level == queue[1].level
       IN IF n.id \in visited
          THEN levelsFrom(ns, es, Tail(queue), visited, levels)
          ELSE levelsFrom(ns, es,
                 Tail(queue) \o levelChildren(ns, es, 1, n.id, level, visited \cup {n.id}),
                 visited \cup {n.id},
                 pushAtLevel(levels, level, n))

groupNodesByLevel(ns, es, rootId) ==
  LET r == FindIndex(ns, rootId)
  IN levelsFrom(ns, es, IF r # 0 THEN <<[node |-> ns[r], level |-> 0]>> ELSE <<>>, {}, <<>>)

\* nodes.find(node => node.type === 'root') || nodes[0]
MindmapRoot(ns) ==
  IF \E i \in DOMAIN ns : ns[i].type = "root"
  THEN ns[SetMin({i \in DOMAIN ns : ns[i].type = "root"})]
  ELSE ns[1]

paginateMindmapDiagram(ns, es, maxWidth, maxHeight) ==
  paginateByLevels(groupNodesByLevel(ns, es, MindmapRoot(ns).id), es, maxWidth, maxHeight)

groupUsecasesByActors(actors, usecases, es) == <<usecases>>

paginateActorGroups(groups, es, maxWidth, maxHeight) ==
  [index \in DOMAIN groups |-> createPageInfo(groups[index], es, index, Len(groups))]

paginateUsecaseDiagram(ns, es, maxWidth, maxHeight) ==
  LET actors == SelectSeq(ns, LAMBDA n : n.type = "actor")
      usecases == SelectSeq(ns, LAMBDA n : n.type = "usecase")
  IN paginateActorGroups(groupUsecasesByActors(actors, usecases, es), es, maxWidth, maxHeight)

\* The test of paginateDiagram that no pagination is needed.
Fits(ns, maxWidth, maxHeight) ==
  LET bounds == calculateDiagramBounds(ns)
  IN bounds.width <= maxWidth /\ bounds.height <= maxHeight

\* SinglePage built by createPageInfo, which filters the edges.
SinglePageViaCreatePageInfo(ns, es) == createPageInfo(ns, es, 1, 1)

\* The single page paginateDiagram returns for a diagram that fits.
SinglePage(ns, es) ==
  LET bounds == calculateDiagramBounds(ns)
  IN [pageNumber |-> 1,
      totalPages |-> 1,
      nodes |-> ns,
      edges |-> es,
      viewBox |-> [x |-> bounds.minX - 50, y |-> bounds.minY - 50,
                   width |-> bounds.width + 100, height |-> bounds.height + 100]]

paginateDiagram(ns, es, type, cfg) ==
  IF Fits(ns, cfg.maxWidth, cfg.maxHeight)
  THEN Returned(<<SinglePage(ns, es)>>)
  ELSE CASE type = "class" ->
              Returned(paginateClassDiagram(ns, es, cfg.maxWidth, cfg.maxHeight))
         [] type = "flow" ->
              Returned(paginateFlowDiagram(ns, es, cfg.maxWidth, cfg.maxHeight,
                                           cfg.preferredBreakPoints))
         [] type = "sequence" ->
              paginateSequenceDiagram(ns, es, cfg.maxWidth, cfg.maxHeight)
         [] type = "mindmap" ->
              Returned(paginateMindmapDiagram(ns, es, cfg.maxWidth, cfg.maxHeight))
         [] type = "usecase" ->
              Returned(paginateUsecaseDiagram(ns, es, cfg.maxWidth, cfg.maxHeight))
         [] OTHER ->
              Returned(paginateGenericDiagram(ns, es, cfg.maxWidth, cfg.maxHeight))

----------------------------------------------------------------------------
(* The inputs of the pagination specification.                             *)

\* At most MaxNodes nodes and MaxEdges edges are handed to paginateDiagram.
MaxNodes == 2
MaxEdges == 1

\* Top-left corners: side by side across the width limit, 20 apart (one
\* layer), and 1000 apart (beyond the height limit).
Positions == {<<0, 0>>, <<1150, 0>>, <<0, 20>>, <<0, 1000>>}

DiagramTypes == {"class", "flow", "sequence", "mindmap", "usecase", "generic"}

\* The node types the pagination of each diagram type looks at.
NodeTypesOf(type) ==
  CASE type = "class" -> {"class"}
    [] type = "flow" -> {"process"}
    [] type = "sequence" -> {"actor"}
    [] type = "mindmap" -> {"root", "branch"}
    [] type = "usecase" -> {"actor", "usecase"}
    [] OTHER -> {"node"}

\* Node lists with ids 1..n, each node 120 x 60.
NodeLists(type) ==
  UNION {{[i \in 1..n |-> [id |-> i, type |-> t[i], x |-> p[i][1], y |-> p[i][2],
                           width |-> 120, height |-> 60]] :
            p \in [1..n -> Positions], t \in [1..n -> NodeTypesOf(type)]} :
         n \in 0..MaxNodes}

\* Edge lists over the ids 1..n and n + 1, the id of no node.
EdgeLists(n) ==
  UNION {[1..m -> [from : 1..(n + 1), to : 1..(n + 1)]] : m \in 0..MaxEdges}

\* A sequence diagram can carry one message more, between its actors, so that
\* its messages can be split over pages of one message.
MaxMessages == MaxEdges + 1

MessageLists(n) ==
  EdgeLists(n) \cup [1..MaxMessages -> [from : 1..n, to : 1..n]]

\* maxHeight 900 is the default and 100 is less than a node is apart from the
\* next; for a sequence diagram 260 leaves one message per page, 100 none.
Configs(type) ==
  [maxWidth : {1200},
   maxHeight : IF type = "sequence" THEN {100, 260, 900} ELSE {100, 900},
   preferredBreakPoints : IF type = "flow" THEN {"layers", "clusters", "grid"}
                          ELSE {"layers"}]

GeoIdle == geoArgs = <<>> /\ geoOut = <<>> /\ geoPc = "idle"

UiIdle == store = <<>> /\ handler = "" /\ uiPc = "idle"

LayIdle ==
  /\ layoutNodes = <<>> /\ layoutEdges = <<>> /\ options = <<>>
  /\ positioned = <<>> /\ layPc = "idle"

ParseIdle ==
  /\ parser = "" /\ input = <<>> /\ result = <<>> /\ parsePc = "idle"

PagIdle ==
  /\ nodes = <<>> /\ edges = <<>> /\ diagramType = "" /\ config = <<>>
  /\ pages = <<>> /\ pagPc = "idle"

InitPag ==
  /\ diagramType \in DiagramTypes
  /\ nodes \in NodeLists(diagramType)
  /\ edges \in IF diagramType = "sequence" THEN MessageLists(Len(nodes))
               ELSE EdgeLists(Len(nodes))
  /\ config \in Configs(diagramType)
  /\ pages = <<>>
  /\ pagPc = "input"
  /\ LayIdle
  /\ ParseIdle
  /\ GeoIdle
  /\ UiIdle

\* One call of paginateDiagram(nodes, edges, diagramType, config).
Paginate ==
  /\ pagPc = "input"
  /\ pages' = paginateDiagram(nodes, edges, diagramType, config)
  /\ pagPc' = "done"
  /\ UNCHANGED <<nodes, edges, diagramType, config>>
  /\ UNCHANGED layVars
  /\ UNCHANGED parseVars
  /\ UNCHANGED geoVars
  /\ UNCHANGED uiVars

NextPag == Paginate

SpecPag == InitPag /\ [][NextPag]_vars

----------------------------------------------------------------------------
(* Claims about the pagination engine, checked under SpecPag.              *)

\* The pages of a finished call.
PagDone == pagPc = "done" /\ pages.terminated
PageList == pages.pages

\* The bounding box of the input is within maxWidth x maxHeight.
InputFits ==
  /\ calculateDiagramBounds(nodes).width <= config.maxWidth
  /\ calculateDiagramBounds(nodes).height <= config.maxHeight

\* How often the node with this id appears over all the pages.
Occurrences(id) ==
  Cardinality({pj \in UNION {{<<p, j>> : j \in DOMAIN PageList[p].nodes} : p \in DOMAIN PageList} :
                 PageList[pj[1]].nodes[pj[2]].id = id})

\* The strategy a split uses.
ClusterStrategy == diagramType = "class"
LayerStrategy == diagramType = "flow" /\ config.preferredBreakPoints = "layers"
GridStrategy ==
  \/ diagramType = "flow" /\ config.preferredBreakPoints # "layers"
  \/ diagramType = "generic"

\* C1 (as claimed): on every page returned by paginateDiagram, for every
\* diagram type and also when the diagram fits on one page, every edge of the
\* page has its from and its to among the ids of the page's nodes.
C1_EveryPageEdgeHasBothEndsOnPage ==
  PagDone =>
    \A p \in DOMAIN PageList :
      \A k \in DOMAIN PageList[p].edges :
        /\ PageList[p].edges[k].from \in IdsOf(PageList[p].nodes)
        /\ PageList[p].edges[k].to \in IdsOf(PageList[p].nodes)

\* C2 (as claimed): when the cluster, the layer or the grid strategy splits a
\* diagram, every input node is on exactly one page.
C2_EveryNodeOnExactlyOnePage ==
  (PagDone /\ ~InputFits /\ (ClusterStrategy \/ LayerStrategy \/ GridStrategy)) =>
    \A i \in DOMAIN nodes : Occurrences(nodes[i].id) = 1

\* C2 (amended): when the cluster or the layer strategy splits a diagram,
\* every input node is on exactly one page; when the grid strategy splits it,
\* every input node is on at least one page (a node that intersects several
\* grid cells is repeated on the page of each).
C2_OnceByClusterOrLayerAtLeastOnceByGrid ==
  (PagDone /\ ~InputFits) =>
    /\ (ClusterStrategy \/ LayerStrategy) =>
         \A i \in DOMAIN nodes : Occurrences(nodes[i].id) = 1
    /\ GridStrategy =>
         \A i \in DOMAIN nodes : Occurrences(nodes[i].id) >= 1

\* C2 witness: the cluster strategy has split two classes over two pages.
C2_ClusterSplitReached ==
  /\ PagDone /\ ~InputFits /\ ClusterStrategy
  /\ Len(nodes) = 2 /\ Len(PageList) = 2

\* C3: if the bounding box of the nodes is within maxWidth x maxHeight, one
\* page is returned, numbered 1 of 1, whose nodes and edges are the input
\* lists unchanged, whatever the diagram type.
C3_FittingDiagramIsOnePageUnchanged ==
  (pagPc = "done" /\ InputFits) =>
    /\ pages.terminated
    /\ Len(PageList) = 1
    /\ PageList[1].pageNumber = 1
    /\ PageList[1].totalPages = 1
    /\ PageList[1].nodes = nodes
    /\ PageList[1].edges = edges

\* C3 witness: a fitting diagram of two nodes and one edge has been paginated.
C3_FittingDiagramPaginated ==
  pagPc = "done" /\ InputFits /\ Len(nodes) = 2 /\ Len(edges) = 1

\* C4 (as claimed): when a diagram that exceeds maxWidth x maxHeight is split,
\* the bounding box of every page's nodes is within maxWidth x maxHeight.
C4_EveryPageWithinMax ==
  (PagDone /\ ~InputFits) =>
    \A p \in DOMAIN PageList :
      /\ calculateDiagramBounds(PageList[p].nodes).width <= config.maxWidth
      /\ calculateDiagramBounds(PageList[p].nodes).height <= config.maxHeight

\* C5 (as claimed): a flow diagram whose bounding box exceeds the default
\* maximum, 1200 x 900, is returned as more than one page.
C5_OversizedFlowHasSeveralPages ==
  (PagDone /\ diagramType = "flow" /\ ~InputFits
     /\ config.maxWidth = 1200 /\ config.maxHeight = 900) =>
    Len(PageList) > 1

----------------------------------------------------------------------------
(* The hierarchical layered layout, positionNodesHierarchically.           *)

\* adjacencyMap.get(id) and incomingMap.get(id), as the edges.forEach fills them.
adjacencyOf(es, id) ==
  LET out == SelectSeq(es, LAMBDA e : e.from = id)
  IN [k \in DOMAIN out |-> out[k].to]

incomingOf(es, id) ==
  LET inc == SelectSeq(es, LAMBDA e : e.to = id)
  IN [k \in DOMAIN inc |-> inc[k].from]

IsRootType(n) == n.type \in {"start", "root", "actor"}

\* rootNodes without the fallback for a graph in which every node has an
\* incoming edge.
rootNodesWithoutFallback(ns, es) ==
  SelectSeq(ns, LAMBDA n : Len(incomingOf(es, n.id)) = 0 \/ IsRootType(n))

\* rootNodes, with its fallback; on an empty node list the fallback pushes
\* nodes[0], which is undefined.
rootNodesOf(ns, es) ==
  LET roots == SelectSeq(ns, LAMBDA n : Len(incomingOf(es, n.id)) = 0 \/ IsRootType(n))
      candidateRoots == SelectSeq(ns, LAMBDA n : n.type \in {"class", "usecase", ""})
  IN IF Len(roots) # 0 THEN roots
     ELSE IF Len(candidateRoots) > 0 THEN <<candidateRoots[1]>>
     ELSE <<ns[1]>>

\* The children a dequeued node adds to the queue, in adjacency order.
RECURSIVE layerChildren(_, _, _, _, _)
layerChildren(ns, children, k, layer, visited) ==
  IF k > Len(children) THEN <<>>
  ELSE LET j == FindIndex(ns, children[k])
           rest == layerChildren(ns, children, k + 1, layer, visited)
       IN IF j # 0 /\ children[k] \notin visited
          THEN <<[node |-> ns[j], layer |-> layer + 1]>> \o rest
          ELSE rest

\* The loop with the children put at the front of the queue, depth first.
RECURSIVE assignLayersDepthFirst(_, _, _, _, _)
assignLayersDepthFirst(ns, es, queue, visited, layers) ==
  IF Len(queue) = 0 THEN [layers |-> layers, visited |-> visited]
  ELSE LET n == queue[1].node
           layer == queue[1].layer
       IN IF n.id \in visited
          THEN assignLayersDepthFirst(ns, es, Tail(queue), visited, layers)
          ELSE assignLayersDepthFirst(ns, es,
                 layerChildren(ns, adjacencyOf(es, n.id), 1, layer,
                               visited \cup {n.id}) \o Tail(queue),
                 visited \cup {n.id},
                 pushAtLevel(layers, layer, n))

\* The BFS while loop: [layers, visited] when the queue is empty.
RECURSIVE assignLayers(_, _, _, _, _)
assignLayers(ns, es, queue, visited, layers) ==
  IF Len(queue) = 0 THEN [layers |-> layers, visited |-> visited]
  ELSE LET n == queue[1].node
           layer == queue[1].layer
       IN IF n.id \in visited
          THEN assignLayers(ns, es, Tail(queue), visited, layers)
          ELSE assignLayers(ns, es,
                 Tail(queue) \o layerChildren(ns, adjacencyOf(es, n.id), 1, layer,
                                              visited \cup {n.id}),
                 visited \cup {n.id},
                 pushAtLevel(layers, layer, n))

\* The layers as the BFS left them, the unvisited nodes in none.
addUnvisitedNowhere(ns, k, visited, layers) == [threw |-> FALSE, layers |-> layers]

\* The forEach that adds the unvisited nodes to the last layer. With no layer
\* at all, targetLayer is -1 unless the node is an end or a leaf, and
\* layers[-1].push throws.
RECURSIVE addUnvisited(_, _, _, _)
addUnvisited(ns, k, visited, layers) ==
  IF k > Len(ns) THEN [threw |-> FALSE, layers |-> layers]
  ELSE IF ns[k].id \notin visited
       THEN LET targetLayer == IF ns[k].type \in {"end", "leaf"}
                               THEN Max(0, Len(layers) - 1)
                               ELSE Len(layers) - 1
            IN IF targetLayer < 0
               THEN [threw |-> TRUE, layers |-> layers]
               ELSE addUnvisited(ns, k + 1, visited, pushAtLevel(layers, targetLayer, ns[k]))
       ELSE addUnvisited(ns, k + 1, visited, layers)

\* The layers of a non-empty node list: [threw, layers].
layersOf(ns, es) ==
  LET roots == rootNodesOf(ns, es)
      bfs == assignLayers(ns, es, [k \in DOMAIN roots |-> [node |-> roots[k], layer |-> 0]],
                          {}, <<>>)
  IN addUnvisited(ns, 1, bfs.visited, bfs.layers)

\* cumulativeX: startX plus the widths of the previous nodes of the layer, 70 apart.
RECURSIVE cumulativeX(_, _, _, _)
cumulativeX(layerNodes, nodeIndex, startX, nodeWidth) ==
  IF nodeIndex = 0 THEN startX
  ELSE cumulativeX(layerNodes, nodeIndex - 1, startX, nodeWidth)
       + (IF layerNodes[nodeIndex].width # 0 THEN layerNodes[nodeIndex].width ELSE nodeWidth)
       + 70

\* The node as the earlier variant of the function positioned it
\* (src/src/utils/layoutUtils.ts 133-158): index times spacing, and the
\* nodeWidth and nodeHeight options in place of the node's own size.
positionNodeFixedSize(n, layerNodes, layerIndex, nodeIndex, opts) ==
  LET single == Len(layerNodes) = 1
      x == IF opts.layoutDirection = "left-right"
           THEN opts.startX + layerIndex * opts.horizontalSpacing
           ELSE IF single THEN opts.startX + 200
                ELSE opts.startX + nodeIndex * opts.horizontalSpacing
      y == IF opts.layoutDirection = "left-right"
           THEN IF single THEN opts.startY + 200
                ELSE opts.startY + nodeIndex * opts.verticalSpacing
           ELSE opts.startY + layerIndex * opts.verticalSpacing
  IN Spread(n, [x |-> x, y |-> y, width |-> opts.nodeWidth, height |-> opts.nodeHeight])

\* The body of the inner forEach: the positioned node (indices from 0).
positionNode(n, layerNodes, layerIndex, nodeIndex, opts) ==
  LET actualWidth == IF n.width # 0 THEN n.width ELSE opts.nodeWidth
      actualHeight == IF n.height # 0 THEN n.height ELSE opts.nodeHeight
      single == Len(layerNodes) = 1
      x == IF opts.layoutDirection = "left-right"
           THEN opts.startX + layerIndex * opts.horizontalSpacing
           ELSE IF single THEN opts.startX + 200
                ELSE cumulativeX(layerNodes, nodeIndex, opts.startX, opts.nodeWidth)
      y == IF opts.layoutDirection = "left-right"
           THEN IF single THEN opts.startY + 200
                ELSE opts.startY + nodeIndex * opts.verticalSpacing
           ELSE opts.startY + layerIndex * opts.verticalSpacing
  IN Spread(n, [x |-> x, y |-> y, width |-> actualWidth, height |-> actualHeight])

\* layers.forEach(layerNodes.forEach(...)): the positioned nodes, layer by layer.
RECURSIVE positionLayers(_, _, _)
positionLayers(layers, k, opts) ==
  IF k > Len(layers) THEN <<>>
  ELSE [i \in DOMAIN layers[k] |-> positionNode(layers[k][i], layers[k], k - 1, i - 1, opts)]
       \o positionLayers(layers, k + 1, opts)

\* The outcome of a call: the positioned nodes (with the layers they were put
\* in, as lists of ids), or the TypeError of reading undefined.id.
positionNodesHierarchically(ns, es, opts) ==
  IF Len(ns) = 0
  THEN [threw |-> TRUE, nodes |-> <<>>, layers |-> <<>>]
  ELSE LET assigned == layersOf(ns, es)
           layers == assigned.layers
       IN IF assigned.threw
          THEN [threw |-> TRUE, nodes |-> <<>>, layers |-> <<>>]
          ELSE [threw |-> FALSE,
                nodes |-> positionLayers(layers, 1, opts),
                layers |-> [k \in DOMAIN layers |->
                              [i \in DOMAIN layers[k] |-> layers[k][i].id]]]

----------------------------------------------------------------------------
(* The inputs of the layout specification.                                 *)

\* At most MaxLayoutNodes nodes and MaxLayoutEdges edges are laid out.
MaxLayoutNodes == 2
MaxLayoutEdges == 2

\* A root-like type, a fallback-candidate type, and a type that is neither.
LayoutNodeTypes == {"actor", "class", "end"}

\* Node lists with distinct ids in which no node, the first node or every node
\* carries a size, 300 x 200 as a parser computed it; the others have none
\* of their own (0 x 0).
LayoutNodeLists ==
  UNION {{[i \in 1..n |->
             LET z == IF i <= sized THEN <<300, 200>> ELSE <<0, 0>>
             IN [id |-> i, type |-> t[i], width |-> z[1], height |-> z[2]]] :
            t \in [1..n -> LayoutNodeTypes], sized \in {0, 1, n}} :
         n \in 0..MaxLayoutNodes}

LayoutEdgeLists(n) ==
  UNION {[1..m -> [from : 1..(n + 1), to : 1..(n + 1)]] : m \in 0..MaxLayoutEdges}

\* The default options, in either direction.
DefaultOptions(direction) ==
  [nodeWidth |-> 120, nodeHeight |-> 60, horizontalSpacing |-> 180,
   verticalSpacing |-> 150, startX |-> 150, startY |-> 100,
   layoutDirection |-> direction]

LayoutOptions == {DefaultOptions("top-down"), DefaultOptions("left-right")}

InitLayout ==
  /\ layoutNodes \in LayoutNodeLists
  /\ layoutEdges \in LayoutEdgeLists(Len(layoutNodes))
  /\ options \in LayoutOptions
  /\ positioned = <<>>
  /\ layPc = "input"
  /\ PagIdle
  /\ ParseIdle
  /\ GeoIdle
  /\ UiIdle

\* One call of positionNodesHierarchically(layoutNodes, layoutEdges, options).
Layout ==
  /\ layPc = "input"
  /\ positioned' = positionNodesHierarchically(layoutNodes, layoutEdges, options)
  /\ layPc' = "done"
  /\ UNCHANGED <<layoutNodes, layoutEdges, options>>
  /\ UNCHANGED pagVars
  /\ UNCHANGED parseVars
  /\ UNCHANGED geoVars
  /\ UNCHANGED uiVars

NextLayout == Layout

SpecLayout == InitLayout /\ [][NextLayout]_vars

----------------------------------------------------------------------------
(* Claims about the hierarchical layout, checked under SpecLayout.         *)

LayoutDone == layPc = "done" /\ ~positioned.threw

\* The positioned node with this id.
PositionedOf(id) == positioned.nodes[FindIndex(positioned.nodes, id)]

\* The interiors of the two rectangles [x, x+width] x [y, y+height] meet.
InteriorsOverlap(a, b) ==
  /\ a.x < b.x + b.width /\ b.x < a.x + a.width
  /\ a.y < b.y + b.height /\ b.y < a.y + a.height

\* C6 (as claimed): two distinct nodes that positionNodesHierarchically puts
\* in the same layer never get rectangles whose interiors overlap, whatever
\* the sizes, the spacing options and the layout direction.
C6_SameLayerRectanglesDisjoint ==
  LayoutDone =>
    \A k \in DOMAIN positioned.layers :
      \A i, j \in DOMAIN positioned.layers[k] :
        i # j => ~InteriorsOverlap(PositionedOf(positioned.layers[k][i]),
                                   PositionedOf(positioned.layers[k][j]))

----------------------------------------------------------------------------
(* The text parsers. The input text is a sequence of lines. For the class, *)
(* sequence, flow and use-case parsers, whose patterns are blind to the    *)
(* amount of white space, a line is the sequence of its tokens: words      *)
(* (\w+) and the punctuation the patterns look for. For the mind-map       *)
(* parser, which measures the indentation, a line is the sequence of its   *)
(* characters.                                                             *)

Punctuation == {"{", "}", "+", "-", "#", "(", ")", ":", ",", "->", "-->"}

\* The token matches \w+.
IsWord(t) == t \notin Punctuation

\* input.split('\n').map(line => line.trim()).filter(line => line.length > 0)
NonEmptyLines(inp) == SelectSeq(inp, LAMBDA line : Len(line) > 0)

\* The length of the text of a token sequence, one space between tokens.
RECURSIVE TextLength(_)
TextLength(tokens) ==
  IF Len(tokens) = 0 THEN 0
  ELSE IF Len(tokens) = 1 THEN Len(tokens[1])
  ELSE Len(tokens[1]) + 1 + TextLength(Tail(tokens))

\* tokens.split(sep): the pieces between the separators.
RECURSIVE SplitOn(_, _, _)
SplitOn(tokens, sep, piece) ==
  IF Len(tokens) = 0 THEN <<piece>>
  ELSE IF tokens[1] = sep THEN <<piece>> \o SplitOn(Tail(tokens), sep, <<>>)
  ELSE SplitOn(Tail(tokens), sep, Append(piece, tokens[1]))

\* generateId(): Math.random().toString(36).substr(2, 9). The model hands out
\* the ids of a parse from a supply of distinct ids, none the empty string:
\* each call returns the next id of the supply, which no earlier call of the
\* same parse returned.
generateId(idsLeft) == [id |-> Head(idsLeft), idsLeft |-> Tail(idsLeft)]

\* The supply 1, 2, 3, ... for a text; no line makes more than three calls.
SerialIds(inp) == [k \in 1..(3 * Len(inp)) |-> k]

\* The message of the TypeError that reading a property of undefined throws.
TypeErrorMessage == "Cannot read properties of undefined (reading 'id')"

\* return { success: true, data: { nodes, edges, metadata } }
Success(ns, es) ==
  [threw |-> FALSE, message |-> "",
   value |-> [escaped |-> FALSE, success |-> TRUE, error |-> <<>>,
              data |-> <<[nodes |-> ns, edges |-> es]>>]]

\* return { success: false, error }
Failure(message) ==
  [threw |-> FALSE, message |-> "",
   value |-> [escaped |-> FALSE, success |-> FALSE, error |-> <<message>>, data |-> <<>>]]

\* An exception thrown inside the try block.
Thrown(message) == [threw |-> TRUE, message |-> message, value |-> <<>>]

\* A parser whose try block has no catch clause: the exception leaves the parser.
tryWithoutCatch(attempt) ==
  IF attempt.threw
  THEN [escaped |-> TRUE, success |-> FALSE, error |-> <<>>, data |-> <<>>]
  ELSE attempt.value

\* try { ... } catch (error) { return { success: false, error: error.message } }
tryCatch(attempt) ==
  IF attempt.threw
  THEN [escaped |-> FALSE, success |-> FALSE, error |-> <<attempt.message>>, data |-> <<>>]
  ELSE attempt.value

----------------------------------------------------------------------------
(* parseClassDiagram.                                                      *)

\* line.match(/class\s+(\w+)(?:\s+extends\s+(\w+))?\s*\{?/): the leftmost
\* match, <<>> when there is none; parentClass is "" when the group is absent.
classMatch(line) ==
  LET starts == {i \in 1..(Len(line) - 1) : line[i] = "class" /\ IsWord(line[i + 1])}
  IN IF starts = {} THEN <<>>
     ELSE LET i == SetMin(starts)
              hasParent == /\ i + 3 <= Len(line)
                           /\ line[i + 2] = "extends"
                           /\ IsWord(line[i + 3])
          IN <<[className |-> line[i + 1],
                parentClass |-> IF hasParent THEN line[i + 3] ELSE ""]>>

\* content.match(/(\w+):\s*(\w+)/)
attributeMatch(content) ==
  LET starts == {i \in 1..(Len(content) - 2) :
                   IsWord(content[i]) /\ content[i + 1] = ":" /\ IsWord(content[i + 2])}
  IN IF starts = {} THEN <<>>
     ELSE <<[name |-> content[SetMin(starts)], type |-> content[SetMin(starts) + 2]]>>

\* The first closing parenthesis at or after position k, 0 if none.
ClosingAt(content, k) ==
  IF \E j \in k..Len(content) : content[j] = ")"
  THEN SetMin({j \in k..Len(content) : content[j] = ")"})
  ELSE 0

\* p.trim().split(':').map(s => s.trim()), then name || '' and type || 'void'.
parameterOf(p) ==
  LET parts == SplitOn(p, ":", <<>>)
  IN [name |-> IF Len(parts[1]) > 0 THEN parts[1][1] ELSE "",
      type |-> IF Len(parts) > 1 /\ Len(parts[2]) > 0 THEN parts[2][1] ELSE "void"]

\* content.match(/(\w+)\(([^)]*)\):\s*(\w+)/), with the parameters split.
methodMatch(content) ==
  LET starts == {i \in 1..(Len(content) - 1) :
                   /\ IsWord(content[i]) /\ content[i + 1] = "("
                   /\ LET j == ClosingAt(content, i + 2)
                      IN /\ j # 0 /\ j + 2 <= Len(content)
                         /\ content[j + 1] = ":" /\ IsWord(content[j + 2])}
  IN IF starts = {} THEN <<>>
     ELSE LET i == SetMin(starts)
              j == ClosingAt(content, i + 2)
              params == SubSeq(content, i + 2, j - 1)
              pieces == SplitOn(params, ",", <<>>)
          IN <<[name |-> content[i], returnType |-> content[j + 2],
                parameters |-> IF Len(params) > 0
                               THEN [k \in DOMAIN pieces |-> parameterOf(pieces[k])]
                               ELSE <<>>]>>

\* The greatest of the numbers of a sequence, 0 for the empty one.
RECURSIVE MaxOf(_)
MaxOf(lengths) ==
  IF Len(lengths) = 0 THEN 0 ELSE Max(lengths[1], MaxOf(Tail(lengths)))

\* `${p.name}: ${p.type}` joined by ', '.
RECURSIVE paramsLength(_)
paramsLength(ps) ==
  IF Len(ps) = 0 THEN 0
  ELSE Len(ps[1].name) + 2 + Len(ps[1].type)
       + (IF Len(ps) > 1 THEN 2 + paramsLength(Tail(ps)) ELSE 0)

\* finishCurrentClass: nodes with currentClass pushed, sized by its content.
finishCurrentClass(currentClass, ns) ==
  LET attributes == currentClass.data.attributes
      methods == currentClass.data.methods
      attributeHeight == Len(attributes) * 18
      methodHeight == Len(methods) * 18
      needsSeparator == Len(attributes) > 0 /\ Len(methods) > 0
      calculatedHeight == 30 + attributeHeight + (IF needsSeparator THEN 15 ELSE 0)
                          + methodHeight + 30
      height == Max(80, calculatedHeight)
      maxAttributeLength ==
        MaxOf([k \in DOMAIN attributes |->
                 2 + Len(attributes[k].name) + 2 + Len(attributes[k].type)])
      maxMethodLength ==
        MaxOf([k \in DOMAIN methods |->
                 2 + Len(methods[k].name) + 1 + paramsLength(methods[k].parameters)
                 + 3 + Len(methods[k].returnType)])
      maxContentLength ==
        Max(Len(currentClass.data.className), Max(maxAttributeLength, maxMethodLength))
      calculatedWidth == Max(200, Min(400, maxContentLength * 8 + 40))
  IN Append(ns, Spread(currentClass, [width |-> calculatedWidth, height |-> height]))

\* The visibility a member line starts with.
visibilityOf(mark) ==
  IF mark = "+" THEN "public" ELSE IF mark = "-" THEN "private" ELSE "protected"

\* currentClass.data with the member of the line pushed, if the line matches.
withMember(data, line) ==
  LET visibility == visibilityOf(line[1])
      content == Tail(line)
  IN IF \E k \in DOMAIN content : content[k] = "("
     THEN LET m == methodMatch(content)
          IN IF m = <<>> THEN data
             ELSE [data EXCEPT !.methods =
                     Append(@, Spread(m[1], [visibility |-> visibility]))]
     ELSE LET m == attributeMatch(content)
          IN IF m = <<>> THEN data
             ELSE [data EXCEPT !.attributes =
                     Append(@, Spread(m[1], [visibility |-> visibility]))]

\* One iteration of the loop over the lines. A node pushed while it still is
\* currentClass shares its data object with currentClass.
classLine(st, line) ==
  IF Len(line) >= 2 /\ line[1] = "class"
  THEN LET finished ==
             IF st.currentClass # <<>>
             THEN [st EXCEPT !.nodes = finishCurrentClass(st.currentClass[1], @),
                             !.yPosition = @ + 200]
             ELSE st
           m == classMatch(line)
       IN IF m = <<>> THEN finished
          ELSE LET fresh == generateId(finished.idsLeft)
                   created ==
                     [id |-> fresh.id, type |-> "class",
                      x |-> 100 + (Len(finished.nodes) % 3) * 300,
                      y |-> finished.yPosition,
                      width |-> 200, height |-> 120,
                      label |-> m[1].className,
                      data |-> [className |-> m[1].className,
                                attributes |-> <<>>, methods |-> <<>>]]
               IN [finished EXCEPT
                     !.currentClass = <<created>>,
                     !.idsLeft = fresh.idsLeft,
                     !.pendingInheritance =
                       IF m[1].parentClass # ""
                       THEN Append(@, [childId |-> fresh.id,
                                       parentName |-> m[1].parentClass])
                       ELSE @]
  ELSE IF st.currentClass # <<>> /\ line[1] \in {"-", "+", "#"}
  THEN LET data == withMember(st.currentClass[1].data, line)
       IN [st EXCEPT
             !.currentClass = <<[st.currentClass[1] EXCEPT !.data = data]>>,
             !.nodes = [k \in DOMAIN st.nodes |->
                          IF st.nodes[k].id = st.currentClass[1].id
                          THEN [st.nodes[k] EXCEPT !.data = data]
                          ELSE st.nodes[k]]]
  ELSE IF line = <<"}">> /\ st.currentClass # <<>>
  THEN [st EXCEPT !.nodes = finishCurrentClass(st.currentClass[1], @),
                  !.currentClass = <<>>,
                  !.yPosition = @ + 200]
  ELSE st

\* The loop over the lines, from line k on.
RECURSIVE classLines(_, _, _)
classLines(lines, k, st) ==
  IF k > Len(lines) THEN st ELSE classLines(lines, k + 1, classLine(st, lines[k]))

\* nameToNode.get(name): the last node of that class name, 0 if none.
nameToNode(ns, name) ==
  IF \E i \in DOMAIN ns : ns[i].data.className = name
  THEN SetMax({i \in DOMAIN ns : ns[i].data.className = name})
  ELSE 0

\* An inheritance resolved only against the classes declared before the child.
parentDeclaredEarlier(ns, rel) ==
  LET p == nameToNode(ns, rel.parentName)
  IN IF p # 0 /\ ns[p].id < rel.childId THEN p ELSE 0

\* nameToNode.get(rel.parentName), over all the classes of the input.
parentOf(ns, rel) == nameToNode(ns, rel.parentName)

\* The second pass over pendingInheritance: [edges, idsLeft].
RECURSIVE resolveInheritance(_, _, _, _, _)
resolveInheritance(ns, pending, k, es, idsLeft) ==
  IF k > Len(pending) THEN [edges |-> es, idsLeft |-> idsLeft]
  ELSE LET p == parentOf(ns, pending[k])
       IN IF p # 0
          THEN resolveInheritance(ns, pending, k + 1,
                 Append(es, [id |-> generateId(idsLeft).id,
                             from |-> pending[k].childId,
                             to |-> ns[p].id,
                             type |-> "inheritance", label |-> "extends"]),
                 generateId(idsLeft).idsLeft)
          ELSE resolveInheritance(ns, pending, k + 1, es, idsLeft)

\* The nodes and edges parseClassDiagram has built when it calls the layout.
classExtract(inp, ids) ==
  LET st == classLines(NonEmptyLines(inp), 1,
              [nodes |-> <<>>, currentClass |-> <<>>, yPosition |-> 50,
               pendingInheritance |-> <<>>, idsLeft |-> ids])
      ns == IF st.currentClass # <<>>
            THEN finishCurrentClass(st.currentClass[1], st.nodes)
            ELSE st.nodes
      resolved == resolveInheritance(ns, st.pendingInheritance, 1, <<>>, st.idsLeft)
  IN [nodes |-> ns, edges |-> resolved.edges, pendingInheritance |-> st.pendingInheritance]

\* The options parseClassDiagram passes to the layout, defaults filled in.
ClassLayoutOptions ==
  [nodeWidth |-> 250, nodeHeight |-> 200, horizontalSpacing |-> 300,
   verticalSpacing |-> 250, startX |-> 150, startY |-> 100,
   layoutDirection |-> "top-down"]

\* The body of parseClassDiagram; extracted is the one value of classExtract(inp, ids).
parseClassDiagram(inp, ids) ==
  CHOOSE returned \in
    {LET layout == positionNodesHierarchically(extracted.nodes, extracted.edges,
                                               ClassLayoutOptions)
     IN tryCatch(IF layout.threw THEN Thrown(TypeErrorMessage)
                 ELSE Success(layout.nodes, extracted.edges))
       : extracted \in {classExtract(inp, ids)}} : TRUE

----------------------------------------------------------------------------
(* parseSequenceDiagram and positionSequenceNodes.                         *)

\* line.match(/(\w+)\s*(->|-->)\s*(\w+):\s*(.+)/): the leftmost match.
sequenceMatch(line) ==
  LET starts == {i \in 1..(Len(line) - 4) :
                   /\ IsWord(line[i]) /\ line[i + 1] \in {"->", "-->"}
                   /\ IsWord(line[i + 2]) /\ line[i + 3] = ":"}
  IN IF starts = {} THEN <<>>
     ELSE LET i == SetMin(starts)
          IN <<[from |-> line[i], arrow |-> line[i + 1], to |-> line[i + 2],
                message |-> SubSeq(line, i + 4, Len(line))]>>

\* An array push in place of actors.add(name): a name met again is kept again.
addActorAgain(actors, name) == Append(actors, name)

\* actors.add(name): a Set keeps the order of first insertion.
addActor(actors, name) ==
  IF \E i \in DOMAIN actors : actors[i] = name THEN actors ELSE Append(actors, name)

\* The loop over the lines: [actors, messages, idsLeft].
RECURSIVE sequenceLines(_, _, _)
sequenceLines(lines, k, st) ==
  IF k > Len(lines) THEN st
  ELSE LET m == sequenceMatch(lines[k])
       IN IF m = <<>> THEN sequenceLines(lines, k + 1, st)
          ELSE sequenceLines(lines, k + 1,
                 [actors |-> addActor(addActor(st.actors, m[1].from), m[1].to),
                  messages |-> Append(st.messages,
                                 [id |-> generateId(st.idsLeft).id,
                                  from |-> m[1].from, to |-> m[1].to,
                                  message |-> m[1].message,
                                  type |-> IF m[1].arrow = "->" THEN "sync" ELSE "async"]),
                  idsLeft |-> generateId(st.idsLeft).idsLeft])

\* nodes.find(n => n.label === name)?.id || '', the empty string being 0.
actorIdOf(ns, name) ==
  IF \E i \in DOMAIN ns : ns[i].label = name
  THEN ns[SetMin({i \in DOMAIN ns : ns[i].label = name})].id
  ELSE 0

\* The nodes and edges parseSequenceDiagram has built when it calls the layout.
sequenceExtract(inp, ids) ==
  LET st == sequenceLines(NonEmptyLines(inp), 1,
                          [actors |-> <<>>, messages |-> <<>>, idsLeft |-> ids])
      ns == [index \in DOMAIN st.actors |->
               [id |-> st.idsLeft[index], type |-> "actor",
                x |-> 100 + (index - 1) * 200, y |-> 50, width |-> 100, height |-> 60,
                label |-> st.actors[index],
                data |-> [actorName |-> st.actors[index]]]]
      es == [index \in DOMAIN st.messages |->
               [id |-> st.messages[index].id,
                from |-> actorIdOf(ns, st.messages[index].from),
                to |-> actorIdOf(ns, st.messages[index].to),
                label |-> st.messages[index].message,
                type |-> st.messages[index].type,
                data |-> [order |-> index - 1]]]
  IN [nodes |-> ns, edges |-> es]

positionSequenceNodes(ns) ==
  LET actors == SelectSeq(ns, LAMBDA n : n.type = "actor")
  IN [index \in DOMAIN actors |->
        Spread(actors[index], [x |-> 100 + (index - 1) * 200, y |-> 80,
                               width |-> 120, height |-> 60])]

\* The body of parseSequenceDiagram; extracted is the one value of
\* sequenceExtract(inp, ids).
parseSequenceDiagram(inp, ids) ==
  CHOOSE returned \in
    {tryCatch(Success(positionSequenceNodes(extracted.nodes), extracted.edges))
       : extracted \in {sequenceExtract(inp, ids)}} : TRUE

----------------------------------------------------------------------------
(* parseFlowDiagram with its own layered layout and consolidateEndNodes.   *)

\* line.match(/(\w+)\s*->\s*(\w+)(?::\s*(.+))?/): the leftmost match.
flowMatch(line) ==
  LET starts == {i \in 1..(Len(line) - 2) :
                   IsWord(line[i]) /\ line[i + 1] = "->" /\ IsWord(line[i + 2])}
  IN IF starts = {} THEN <<>>
     ELSE LET i == SetMin(starts)
              hasLabel == i + 4 <= Len(line) /\ line[i + 3] = ":"
          IN <<[from |-> line[i], to |-> line[i + 2],
                label |-> IF hasLabel THEN SubSeq(line, i + 4, Len(line)) ELSE <<>>]>>

\* nodeName.toLowerCase().includes(part), for the node names of the model.
LowerIncludes(nodeName, part) ==
  <<nodeName, part>> \in {<<"Start", "start">>, <<"End", "end">>, <<"Send", "end">>,
                          <<"decision", "decision">>}

getNodeType(nodeName) ==
  IF LowerIncludes(nodeName, "start") THEN "start"
  ELSE IF LowerIncludes(nodeName, "end") THEN "end"
  ELSE IF LowerIncludes(nodeName, "decision") THEN "decision"
  ELSE "process"

\* nodeMap.has(name)
nodeMapHas(nodeMap, name) == \E i \in DOMAIN nodeMap : nodeMap[i].name = name

\* nodeMap.get(name)
nodeMapGet(nodeMap, name) ==
  nodeMap[SetMin({i \in DOMAIN nodeMap : nodeMap[i].name = name})]

\* if (!nodeMap.has(name)) nodeMap.set(name, {...}): [nodeMap, idsLeft].
ensureNode(st, name) ==
  IF nodeMapHas(st.nodeMap, name) THEN st
  ELSE [st EXCEPT !.nodeMap = Append(@, [id |-> generateId(st.idsLeft).id, name |-> name,
                                         type |-> getNodeType(name), label |-> name]),
                  !.idsLeft = generateId(st.idsLeft).idsLeft]

\* The loop over the lines: [nodeMap, edges, idsLeft].
RECURSIVE flowLines(_, _, _)
flowLines(lines, k, st) ==
  IF k > Len(lines) THEN st
  ELSE LET m == flowMatch(lines[k])
       IN IF m = <<>> THEN flowLines(lines, k + 1, st)
          ELSE LET both == ensureNode(ensureNode(st, m[1].from), m[1].to)
               IN flowLines(lines, k + 1,
                    [both EXCEPT
                       !.edges = Append(@, [id |-> generateId(both.idsLeft).id,
                                            from |-> nodeMapGet(both.nodeMap, m[1].from).id,
                                            to |-> nodeMapGet(both.nodeMap, m[1].to).id,
                                            label |-> m[1].label]),
                       !.idsLeft = generateId(both.idsLeft).idsLeft])

\* The nodes and edges parseFlowDiagram has built when it calls the layout.
flowExtract(inp, ids) ==
  LET st == flowLines(NonEmptyLines(inp), 1, [nodeMap |-> <<>>, edges |-> <<>>, idsLeft |-> ids])
  IN [nodes |-> st.nodeMap, edges |-> st.edges]

\* The children a dequeued node adds to the queue: an end node two layers down.
RECURSIVE flowChildren(_, _, _, _, _)
flowChildren(nodeArray, children, k, layer, visited) ==
  IF k > Len(children) THEN <<>>
  ELSE LET j == FindIndex(nodeArray, children[k])
           rest == flowChildren(nodeArray, children, k + 1, layer, visited)
       IN IF j # 0 /\ children[k] \notin visited
          THEN <<[node |-> nodeArray[j],
                  layer |-> IF nodeArray[j].type = "end" THEN layer + 2 ELSE layer + 1]>>
               \o rest
          ELSE rest

\* The BFS while loop: [layers, visited, nodeToLayer], nodeToLayer a set of
\* <<id, layer>> pairs.
RECURSIVE flowAssignLayers(_, _, _, _, _, _)
flowAssignLayers(nodeArray, es, queue, visited, layers, nodeToLayer) ==
  IF Len(queue) = 0
  THEN [layers |-> layers, visited |-> visited, nodeToLayer |-> nodeToLayer]
  ELSE LET n == queue[1].node
           layer == queue[1].layer
       IN IF n.id \in visited
          THEN flowAssignLayers(nodeArray, es, Tail(queue), visited, layers, nodeToLayer)
          ELSE flowAssignLayers(nodeArray, es,
                 Tail(queue) \o flowChildren(nodeArray, adjacencyOf(es, n.id), 1, layer,
                                             visited \cup {n.id}),
                 visited \cup {n.id},
                 pushAtLevel(layers, layer, n),
                 nodeToLayer \cup {<<n.id, layer>>})

\* The forEach that adds the unvisited nodes to the last layer.
RECURSIVE flowAddUnvisited(_, _, _, _)
flowAddUnvisited(nodeArray, k, visited, layers) ==
  IF k > Len(nodeArray) THEN layers
  ELSE IF nodeArray[k].id \notin visited
       THEN flowAddUnvisited(nodeArray, k + 1, visited,
              pushAtLevel(layers, Max(Len(layers), 1) - 1, nodeArray[k]))
       ELSE flowAddUnvisited(nodeArray, k + 1, visited, layers)

\* nodeToLayer.get(id) || 0
layerOfNode(nodeToLayer, id) ==
  IF \E p \in nodeToLayer : p[1] = id
  THEN (CHOOSE p \in nodeToLayer : p[1] = id)[2]
  ELSE 0

\* layer.splice(layer.indexOf(node), 1): the layer without the first occurrence.
removeFirst(layer, id) ==
  LET index == FindIndex(layer, id)
  IN IF index = 0 THEN layer
     ELSE SubSeq(layer, 1, index - 1) \o SubSeq(layer, index + 1, Len(layer))

\* The second forEach of consolidateEndNodes, from end node k on.
RECURSIVE moveEndNodes(_, _, _, _, _)
moveEndNodes(layers, nodeToLayer, endNodes, maxEndLayer, k) ==
  IF k > Len(endNodes) THEN layers
  ELSE LET endNode == endNodes[k]
           currentLayer == layerOfNode(nodeToLayer, endNode.id)
       IN IF currentLayer < maxEndLayer
          THEN LET removed == [layers EXCEPT ![currentLayer + 1] = removeFirst(@, endNode.id)]
                   present == FindIndex(removed[maxEndLayer + 1], endNode.id) # 0
               IN moveEndNodes(
                    IF present THEN removed
                    ELSE [removed EXCEPT ![maxEndLayer + 1] = Append(@, endNode)],
                    IF present THEN nodeToLayer
                    ELSE {p \in nodeToLayer : p[1] # endNode.id}
                         \cup {<<endNode.id, maxEndLayer>>},
                    endNodes, maxEndLayer, k + 1)
          ELSE moveEndNodes(layers, nodeToLayer, endNodes, maxEndLayer, k + 1)

consolidateEndNodes(layers, nodeToLayer, endNodes) ==
  IF Len(endNodes) <= 1 THEN layers
  ELSE LET maxEndLayer ==
             MaxOf([k \in DOMAIN endNodes |-> layerOfNode(nodeToLayer, endNodes[k].id)])
       IN moveEndNodes(layers, nodeToLayer, endNodes, maxEndLayer, 1)

\* The body of the inner forEach of the flow layout (indices from 0).
flowPositionNode(n, layerNodes, layerIndex, nodeIndex) ==
  LET nodeSpacing == IF Len(layerNodes) > 3 THEN 128 ELSE 160
      totalWidth == (Len(layerNodes) - 1) * nodeSpacing
      startX == 200 - totalWidth \div 2
      x0 == IF Len(layerNodes) = 1 THEN 200 ELSE startX + nodeIndex * nodeSpacing
      terminal == n.type \in {"start", "end"}
      width == IF n.type = "decision" THEN 100 ELSE IF terminal THEN 100 ELSE 120
      height == IF n.type = "decision" THEN 80 ELSE IF terminal THEN 50 ELSE 60
      x1 == IF terminal /\ x0 < 100 THEN 100 ELSE x0
      x == IF terminal /\ x1 + width > 500 THEN 500 - width ELSE x1
  IN Spread(n, [x |-> x, y |-> 80 + layerIndex * 140, width |-> width, height |-> height])

RECURSIVE flowPositionLayers(_, _)
flowPositionLayers(layers, k) ==
  IF k > Len(layers) THEN <<>>
  ELSE [i \in DOMAIN layers[k] |-> flowPositionNode(layers[k][i], layers[k], k - 1, i - 1)]
       \o flowPositionLayers(layers, k + 1)

\* The private positionNodesHierarchically of the flow parser: [threw, nodes,
\* layers]. On an empty node array rootNodes.push(nodeArray[0]) queues
\* undefined, and reading its id throws.
flowPositionNodesHierarchically(nodeArray, es) ==
  IF Len(nodeArray) = 0 THEN [threw |-> TRUE, nodes |-> <<>>, layers |-> <<>>]
  ELSE LET roots == SelectSeq(nodeArray, LAMBDA n :
                      Len(incomingOf(es, n.id)) = 0 \/ n.type = "start")
           endNodes == SelectSeq(nodeArray, LAMBDA n :
                         Len(adjacencyOf(es, n.id)) = 0 \/ n.type = "end")
           rootNodes == IF Len(roots) = 0 THEN <<nodeArray[1]>> ELSE roots
           bfs == flowAssignLayers(nodeArray, es,
                    [k \in DOMAIN rootNodes |-> [node |-> rootNodes[k], layer |-> 0]],
                    {}, <<>>, {})
           layers == consolidateEndNodes(
                       flowAddUnvisited(nodeArray, 1, bfs.visited, bfs.layers),
                       bfs.nodeToLayer, endNodes)
       IN [threw |-> FALSE, nodes |-> flowPositionLayers(layers, 1),
           layers |-> [k \in DOMAIN layers |->
                         [i \in DOMAIN layers[k] |-> layers[k][i].id]]]

\* The body of parseFlowDiagram; extracted is the one value of flowExtract(inp, ids).
parseFlowDiagram(inp, ids) ==
  CHOOSE returned \in
    {LET layout == flowPositionNodesHierarchically(extracted.nodes, extracted.edges)
     IN tryCatch(IF layout.threw THEN Thrown(TypeErrorMessage)
                 ELSE Success(layout.nodes, extracted.edges))
       : extracted \in {flowExtract(inp, ids)}} : TRUE

----------------------------------------------------------------------------
(* parseUsecaseDiagram, which positions its nodes itself.                  *)

\* line.includes(' -> (') && line.includes(')')
looksLikeConnection(line) ==
  /\ \E k \in 2..(Len(line) - 1) : line[k] = "->" /\ line[k + 1] = "("
  /\ \E k \in DOMAIN line : line[k] = ")"

\* line.match(/(\w+)\s*->\s*\(([^)]+)\)/): the leftmost match.
usecaseMatch(line) ==
  LET starts == {i \in 1..(Len(line) - 4) :
                   /\ IsWord(line[i]) /\ line[i + 1] = "->" /\ line[i + 2] = "("
                   /\ line[i + 3] # ")" /\ ClosingAt(line, i + 4) # 0}
  IN IF starts = {} THEN <<>>
     ELSE LET i == SetMin(starts)
          IN <<[actorName |-> <<line[i]>>,
                usecaseName |-> SubSeq(line, i + 3, ClosingAt(line, i + 4) - 1)]>>

\* A find that never finds an item.
FindNothing(list, name) == 0

\* list.find(item => item.label === name): the index, 0 if none (an actor's
\* name is its label).
FindByLabel(list, name) ==
  IF \E i \in DOMAIN list : list[i].label = name
  THEN SetMin({i \in DOMAIN list : list[i].label = name})
  ELSE 0

\* One iteration of the loop over the lines: [actors, usecases, edges, idsLeft].
usecaseLine(st, line) ==
  IF Len(line) >= 2 /\ line[1] = "actor"
  THEN [st EXCEPT !.actors = Append(@, [id |-> generateId(st.idsLeft).id, type |-> "actor",
                                        label |-> Tail(line), name |-> Tail(line)]),
                  !.idsLeft = generateId(st.idsLeft).idsLeft]
  ELSE IF looksLikeConnection(line) /\ usecaseMatch(line) # <<>>
  THEN LET m == usecaseMatch(line)[1]
           known == FindByLabel(st.usecases, m.usecaseName)
           found == IF known # 0 THEN st
                    ELSE [st EXCEPT
                            !.usecases = Append(@, [id |-> generateId(st.idsLeft).id,
                                                    type |-> "usecase",
                                                    label |-> m.usecaseName,
                                                    name |-> m.usecaseName]),
                            !.idsLeft = generateId(st.idsLeft).idsLeft]
           usecase == found.usecases[FindByLabel(found.usecases, m.usecaseName)]
           actor == FindByLabel(found.actors, m.actorName)
       IN IF actor # 0
          THEN [found EXCEPT
                  !.edges = Append(@, [id |-> generateId(found.idsLeft).id,
                                       from |-> found.actors[actor].id,
                                       to |-> usecase.id, label |-> <<>>]),
                  !.idsLeft = generateId(found.idsLeft).idsLeft]
          ELSE found
  ELSE st

RECURSIVE usecaseLines(_, _, _)
usecaseLines(lines, k, st) ==
  IF k > Len(lines) THEN st ELSE usecaseLines(lines, k + 1, usecaseLine(st, lines[k]))

\* The actors, use cases and edges parseUsecaseDiagram has built after its loop.
usecaseExtract(inp, ids) ==
  LET st == usecaseLines(NonEmptyLines(inp), 1,
              [actors |-> <<>>, usecases |-> <<>>, edges |-> <<>>, idsLeft |-> ids])
  IN [actors |-> st.actors, usecases |-> st.usecases, edges |-> st.edges,
      nodes |-> st.actors \o st.usecases]

\* The sum of the numbers of a sequence.
RECURSIVE SumOf(_)
SumOf(numbers) == IF Len(numbers) = 0 THEN 0 ELSE numbers[1] + SumOf(Tail(numbers))

\* The actor at index k (from 1), centred on its use cases; an actor without
\* a connection takes the next slot of the fallback column.
positionActor(actors, k, es, positionedUsecases) ==
  LET connected == SelectSeq(es, LAMBDA e : e.from = actors[k].id)
      centres == [i \in DOMAIN connected |->
                    LET uc == positionedUsecases[FindIndex(positionedUsecases, connected[i].to)]
                    IN uc.y + uc.height \div 2]
      actorIndex == Len(SelectSeq(SubSeq(actors, 1, k - 1), LAMBDA a :
                          Len(SelectSeq(es, LAMBDA e : e.from = a.id)) = 0))
      actorY == IF Len(connected) > 0
                THEN SumOf(centres) \div Len(centres) - 60
                ELSE 100 + actorIndex * 150
  IN Spread(actors[k], [x |-> 100, y |-> actorY, width |-> 100, height |-> 120])

\* The body of parseUsecaseDiagram; extracted is the one value of
\* usecaseExtract(inp, ids).
parseUsecaseDiagram(inp, ids) ==
  CHOOSE returned \in {
  LET positionedUsecases ==
        [index \in DOMAIN extracted.usecases |->
           Spread(extracted.usecases[index],
                  [x |-> 350, y |-> 100 + (index - 1) * 120,
                   width |-> Max(160, TextLength(extracted.usecases[index].label) * 12),
                   height |-> 80])]
      positionedActors ==
        [k \in DOMAIN extracted.actors |->
           positionActor(extracted.actors, k, extracted.edges, positionedUsecases)]
  IN tryCatch(Success(positionedActors \o positionedUsecases, extracted.edges))
    : extracted \in {usecaseExtract(inp, ids)}} : TRUE

----------------------------------------------------------------------------
(* parseMindmapDiagram and positionMindmapNodesTree. A raw line is the     *)
(* sequence of its characters.                                             *)

\* The number of spaces a raw line starts with.
LeadingSpaces(rawLine) ==
  IF \A i \in DOMAIN rawLine : rawLine[i] = " " THEN Len(rawLine)
  ELSE SetMin({i \in DOMAIN rawLine : rawLine[i] # " "}) - 1

\* Math.floor(match[1].length / 2)
getIndentLevel(rawLine) == LeadingSpaces(rawLine) \div 2

\* rawLine.trim()
Trim(rawLine) ==
  IF \A i \in DOMAIN rawLine : rawLine[i] = " " THEN <<>>
  ELSE SubSeq(rawLine, SetMin({i \in DOMAIN rawLine : rawLine[i] # " "}),
                       SetMax({i \in DOMAIN rawLine : rawLine[i] # " "}))

\* text.startsWith('//')
IsComment(text) == Len(text) >= 2 /\ text[1] = "/" /\ text[2] = "/"

\* A pop of the deeper entries only, which leaves a sibling on the stack.
RECURSIVE popDeeperOnly(_, _)
popDeeperOnly(nodeStack, level) ==
  IF Len(nodeStack) > 0 /\ nodeStack[Len(nodeStack)].level > level
  THEN popDeeperOnly(SubSeq(nodeStack, 1, Len(nodeStack) - 1), level)
  ELSE nodeStack

\* while (nodeStack.length > 0 && top.level >= level) nodeStack.pop()
RECURSIVE popToLevel(_, _)
popToLevel(nodeStack, level) ==
  IF Len(nodeStack) > 0 /\ nodeStack[Len(nodeStack)].level >= level
  THEN popToLevel(SubSeq(nodeStack, 1, Len(nodeStack) - 1), level)
  ELSE nodeStack

\* One iteration of the loop over the raw lines: [nodes, edges, nodeStack, idsLeft].
mindmapLine(st, rawLine) ==
  LET level == getIndentLevel(rawLine)
      text == Trim(rawLine)
  IN IF Len(text) = 0 \/ IsComment(text) THEN st
     ELSE LET node == [id |-> generateId(st.idsLeft).id,
                       type |-> IF level = 0 THEN "root"
                                ELSE IF level = 1 THEN "branch" ELSE "leaf",
                       label |-> text, level |-> level, x |-> 0, y |-> 0,
                       width |-> Max(120, Len(text) * 7),
                       height |-> IF level = 0 THEN 50 ELSE IF level = 1 THEN 45 ELSE 35]
              afterNode == generateId(st.idsLeft).idsLeft
              stack == popToLevel(st.nodeStack, level)
              connected == Len(stack) > 0
          IN [nodes |-> Append(st.nodes, node),
              edges |-> IF connected
                        THEN Append(st.edges, [id |-> generateId(afterNode).id,
                                               from |-> stack[Len(stack)].node.id,
                                               to |-> node.id, label |-> <<>>])
                        ELSE st.edges,
              nodeStack |-> Append(stack, [node |-> node, level |-> level]),
              idsLeft |-> IF connected THEN generateId(afterNode).idsLeft ELSE afterNode]

RECURSIVE mindmapLines(_, _, _)
mindmapLines(rawLines, k, st) ==
  IF k > Len(rawLines) THEN st
  ELSE mindmapLines(rawLines, k + 1, mindmapLine(st, rawLines[k]))

\* The nodes and edges parseMindmapDiagram has built after its loop.
mindmapExtract(inp, ids) ==
  LET st == mindmapLines(inp, 1,
              [nodes |-> <<>>, edges |-> <<>>, nodeStack |-> <<>>, idsLeft |-> ids])
  IN [nodes |-> st.nodes, edges |-> st.edges]

\* The collation rank of a character of the model's labels.
CharRank(c) ==
  CASE c = " " -> 0 [] c = "/" -> 1 [] c = "a" -> 2 [] c = "b" -> 3
    [] c = "c" -> 4 [] OTHER -> 5

\* a.localeCompare(b) < 0
RECURSIVE LabelBefore(_, _)
LabelBefore(a, b) ==
  IF Len(b) = 0 THEN FALSE
  ELSE IF Len(a) = 0 THEN TRUE
  ELSE IF CharRank(a[1]) # CharRank(b[1]) THEN CharRank(a[1]) < CharRank(b[1])
  ELSE LabelBefore(Tail(a), Tail(b))

\* A sort of the children by their ids.
RECURSIVE insertById(_, _)
insertById(sorted, n) ==
  IF Len(sorted) = 0 THEN <<n>>
  ELSE IF n.id < sorted[1].id THEN <<n>> \o sorted
  ELSE <<sorted[1]>> \o insertById(Tail(sorted), n)

\* children.sort((a, b) => a.label.localeCompare(b.label)), a stable sort.
RECURSIVE insertByLabel(_, _)
insertByLabel(sorted, n) ==
  IF Len(sorted) = 0 THEN <<n>>
  ELSE IF LabelBefore(n.label, sorted[1].label) THEN <<n>> \o sorted
  ELSE <<sorted[1]>> \o insertByLabel(Tail(sorted), n)

RECURSIVE sortByLabel(_, _, _)
sortByLabel(ns, k, sorted) ==
  IF k > Len(ns) THEN sorted ELSE sortByLabel(ns, k + 1, insertByLabel(sorted, ns[k]))

\* childrenMap.get(id) || [], after the sort.
childrenOf(ns, es, id) ==
  LET targets == adjacencyOf(es, id)
      found == SelectSeq(targets, LAMBDA t : FindIndex(ns, t) # 0)
  IN sortByLabel([k \in DOMAIN found |-> ns[FindIndex(ns, found[k])]], 1, <<>>)

\* (label?.length || 10)
LabelLength(n) == IF Len(n.label) = 0 THEN 10 ELSE Len(n.label)

\* One unit of height for every node, whatever hangs under it.
getSubtreeHeightOfOne(ns, es, nodeId) == 60

RECURSIVE getSubtreeHeight(_, _, _)
getSubtreeHeight(ns, es, nodeId) ==
  LET children == childrenOf(ns, es, nodeId)
  IN IF Len(children) = 0 THEN 60
     ELSE SumOf([k \in DOMAIN children |-> getSubtreeHeight(ns, es, children[k].id)])

\* positionBranch, from child k of the node on: the nodes it pushes.
RECURSIVE positionBranchFrom(_, _, _, _, _, _, _, _)
positionBranchFrom(ns, es, children, k, currentY, parentX, direction, level) ==
  IF k > Len(children) THEN <<>>
  ELSE LET child == children[k]
           childSubtreeHeight == getSubtreeHeight(ns, es, child.id)
           nodeY == currentY + childSubtreeHeight \div 2
           nodeWidth == Max(140, Min(220, LabelLength(child) * 8))
           nodeHeight == IF level > 1 THEN 40 ELSE 50
           nodeX == IF direction = "right" THEN parentX + 250
                    ELSE parentX - 250 - nodeWidth
           below == childrenOf(ns, es, child.id)
       IN <<Spread(child, [x |-> nodeX, y |-> nodeY - nodeHeight \div 2,
                           width |-> nodeWidth, height |-> nodeHeight])>>
          \o positionBranchFrom(ns, es, below, 1,
                                nodeY - getSubtreeHeight(ns, es, child.id) \div 2,
                                nodeX + nodeWidth \div 2, direction, level + 1)
          \o positionBranchFrom(ns, es, children, k + 1, currentY + childSubtreeHeight,
                                parentX, direction, level)

\* The forEach over the right or the left half of the root's children.
RECURSIVE positionSide(_, _, _, _, _, _)
positionSide(ns, es, branchNodes, k, sideY, direction) ==
  IF k > Len(branchNodes) THEN <<>>
  ELSE LET child == branchNodes[k]
           childSubtreeHeight == getSubtreeHeight(ns, es, child.id)
           nodeY == sideY + childSubtreeHeight \div 2
           nodeWidth == Max(150, Min(240, LabelLength(child) * 8))
           nodeX == IF direction = "right" THEN 600 + 250 ELSE 600 - 250 - nodeWidth
           branchX == IF direction = "right" THEN 600 + 250 + nodeWidth \div 2
                      ELSE 600 - 250 - nodeWidth \div 2
           below == childrenOf(ns, es, child.id)
       IN <<Spread(child, [x |-> nodeX, y |-> nodeY - 25, width |-> nodeWidth,
                           height |-> 50])>>
          \o positionBranchFrom(ns, es, below, 1,
                                nodeY - getSubtreeHeight(ns, es, child.id) \div 2,
                                branchX, direction, 2)
          \o positionSide(ns, es, branchNodes, k + 1, sideY + childSubtreeHeight, direction)

positionMindmapNodesTree(ns, es) ==
  IF Len(ns) = 0 THEN <<>>
  ELSE LET orphans == {i \in DOMAIN ns : \A k \in DOMAIN es : es[k].to # ns[i].id}
           rootNode == IF orphans # {} THEN ns[SetMin(orphans)] ELSE ns[1]
           rootWidth == Max(180, LabelLength(rootNode) * 9)
           rootChildren == childrenOf(ns, es, rootNode.id)
           half == CeilDiv(Len(rootChildren), 2)
           rightBranchNodes == SubSeq(rootChildren, 1, half)
           leftBranchNodes == SubSeq(rootChildren, half + 1, Len(rootChildren))
           rightBranchHeight ==
             SumOf([k \in DOMAIN rightBranchNodes |->
                      getSubtreeHeight(ns, es, rightBranchNodes[k].id)])
           leftBranchHeight ==
             SumOf([k \in DOMAIN leftBranchNodes |->
                      getSubtreeHeight(ns, es, leftBranchNodes[k].id)])
       IN <<Spread(rootNode, [x |-> 600 - rootWidth \div 2, y |-> 400 - 30,
                              width |-> rootWidth, height |-> 60])>>
          \o positionSide(ns, es, rightBranchNodes, 1, 400 - rightBranchHeight \div 2, "right")
          \o positionSide(ns, es, leftBranchNodes, 1, 400 - leftBranchHeight \div 2, "left")

\* The ids of the model are never empty, so no node is without an id.
\* extracted is the one value of mindmapExtract(inp, ids).
parseMindmapDiagram(inp, ids) ==
  CHOOSE returned \in {
  LET nodesWithoutIds == SelectSeq(extracted.nodes, LAMBDA n : n.id = 0)
      laidOut == positionMindmapNodesTree(extracted.nodes, extracted.edges)
  IN tryCatch(
       IF Len(extracted.nodes) = 0 THEN Failure("No valid nodes found in mindmap input")
       ELSE IF Len(nodesWithoutIds) > 0 THEN Failure("Found nodes without IDs")
       ELSE IF Len(laidOut) = 0
            THEN Failure("Layout positioning failed - no nodes positioned")
       ELSE Success(laidOut, extracted.edges))
    : extracted \in {mindmapExtract(inp, ids)}} : TRUE

----------------------------------------------------------------------------
(* The inputs of the parser specification.                                 *)

\* An input text has at most MaxLines lines.
MaxLines == 3

Parsers == {"class", "sequence", "flow", "usecase", "mindmap"}

\* Class text: declarations with a parent declared before, after or never, a
\* class that extends itself, a class line without a name, an attribute, a
\* method, a closing brace, a line of no rule and an empty line.
ClassLineSet ==
  {<<"class", "A", "{">>,
   <<"class", "B", "extends", "A", "{">>,
   <<"class", "A", "extends", "B">>,
   <<"class", "B", "extends", "C", "{">>,
   <<"class", "B", "extends", "B">>,
   <<"class", "{">>,
   <<"+", "name", ":", "string">>,
   <<"-", "run", "(", "n", ":", "number", ")", ":", "void">>,
   <<"}">>,
   <<"note">>,
   <<>>}

SequenceLineSet ==
  {<<"X", "->", "Y", ":", "hi">>,
   <<"Y", "-->", "X", ":", "ok">>,
   <<"X", "->", "X", ":", "self">>,
   <<"Z", "->", "X", ":", "hi">>,
   <<"X", "->", "Y">>,
   <<"note">>,
   <<>>}

\* Flow text: arrows between a start node, process nodes, a decision and two
\* end nodes, arrows out of the end nodes (with which four nodes can be
\* roots), two self-loops (one of an end node no root reaches), an arrow
\* that does not match and an empty line.
FlowLineSet ==
  {<<"Start", "->", "step">>,
   <<"step", "->", "End", ":", "done">>,
   <<"step", "->", "Send">>,
   <<"step", "->", "decision">>,
   <<"decision", "->", "step">>,
   <<"End", "->", "step">>,
   <<"End", "->", "Start">>,
   <<"Send", "->", "step">>,
   <<"step", "->", "step">>,
   <<"Send", "->", "Send">>,
   <<"step", "-->", "End">>,
   <<>>}

UsecaseLineSet ==
  {<<"actor", "U">>,
   <<"actor", "Ann", "Lee">>,
   <<"U", "->", "(", "Log", "in", ")">>,
   <<"U", "->", "(", "Pay", ")">>,
   <<"V", "->", "(", "Pay", ")">>,
   <<"U", "->", "(", ")">>,
   <<"note">>}

MindmapLineSet ==
  {<<"a">>,
   <<" ", " ", "b">>,
   <<" ", "b">>,
   <<" ", " ", " ", " ", "c">>,
   <<" ", " ">>,
   <<"/", "/", "x">>,
   <<>>}

LineSet(p) ==
  CASE p = "class" -> ClassLineSet
    [] p = "sequence" -> SequenceLineSet
    [] p = "flow" -> FlowLineSet
    [] p = "usecase" -> UsecaseLineSet
    [] p = "mindmap" -> MindmapLineSet

\* An outline may be one line longer than the other texts, so that a branch
\* under the root can have two children.
MaxOutlineLines == MaxLines + 1

Inputs(p) ==
  UNION {[1..n -> LineSet(p)] :
           n \in 0..(IF p = "mindmap" THEN MaxOutlineLines ELSE MaxLines)}

InitParse ==
  /\ parser \in Parsers
  /\ input \in Inputs(parser)
  /\ result = <<>>
  /\ parsePc = "input"
  /\ PagIdle
  /\ LayIdle
  /\ GeoIdle
  /\ UiIdle

\* The parser of the selected diagram type.
parserOf(p, inp, ids) ==
  CASE p = "class" -> parseClassDiagram(inp, ids)
    [] p = "sequence" -> parseSequenceDiagram(inp, ids)
    [] p = "flow" -> parseFlowDiagram(inp, ids)
    [] p = "usecase" -> parseUsecaseDiagram(inp, ids)
    [] p = "mindmap" -> parseMindmapDiagram(inp, ids)

\* One call of the parser on the input text.
Parse ==
  /\ parsePc = "input"
  /\ result' = parserOf(parser, input, SerialIds(input))
  /\ parsePc' = "done"
  /\ UNCHANGED <<parser, input>>
  /\ UNCHANGED pagVars
  /\ UNCHANGED layVars
  /\ UNCHANGED geoVars
  /\ UNCHANGED uiVars

NextParse == Parse

SpecParse == InitParse /\ [][NextParse]_vars

----------------------------------------------------------------------------
(* Claims about the parsers, checked under SpecParse.                      *)

ParseDone == parsePc = "done"

\* The nodes the parser extracted from the input before any layout.
ExtractedNodes ==
  CASE parser = "class" -> classExtract(input, SerialIds(input)).nodes
    [] parser = "sequence" -> sequenceExtract(input, SerialIds(input)).nodes
    [] parser = "flow" -> flowExtract(input, SerialIds(input)).nodes
    [] parser = "usecase" -> usecaseExtract(input, SerialIds(input)).nodes
    [] parser = "mindmap" -> mindmapExtract(input, SerialIds(input)).nodes

\* C8: whatever the input, each of the five parsers returns normally, either
\* success = true with a diagram as data or success = false with an error
\* string; no failure inside the parser or the layout it calls escapes as an
\* exception.
C8_ParsersReturnNormally ==
  ParseDone =>
    /\ ~result.escaped
    /\ result.success => (Len(result.data) = 1 /\ result.error = <<>>)
    /\ ~result.success => (Len(result.error) = 1 /\ result.data = <<>>)

\* C8 witness: the layout threw on the empty node list of a class or flow
\* text, and the parser returned the failure with the message of the error.
C8_LayoutFailureAbsorbed ==
  /\ ParseDone
  /\ parser \in {"class", "flow"}
  /\ Len(input) > 0
  /\ Len(ExtractedNodes) = 0
  /\ ~result.escaped /\ ~result.success
  /\ result.error = <<TypeErrorMessage>>

\* C9: a parser returns success = false only when it extracted no node: every
\* input from which at least one node is extracted, unparsable lines or not,
\* is returned with success = true.
C9_FailureOnlyWithoutNodes ==
  (ParseDone /\ Len(ExtractedNodes) > 0) => (~result.escaped /\ result.success)

\* C9 witness: a text with a line of no rule next to a line that yields a
\* node has been parsed with success, and the diagram holds a node.
C9_PartialInputParsed ==
  /\ ParseDone
  /\ \E i \in DOMAIN input : input[i] \in {<<"note">>, <<"X", "->", "Y">>,
                                          <<"step", "-->", "End">>, <<"/", "/", "x">>}
  /\ Len(ExtractedNodes) > 0
  /\ result.success
  /\ Len(result.data[1].nodes) > 0

\* The class declarations of a text in order: the class lines that match the
\* pattern, as [className, parentClass]. The k-th of them is given the id k,
\* for it makes the k-th call of generateId.
ClassDeclarations(inp) ==
  LET declaring == SelectSeq(NonEmptyLines(inp), LAMBDA line :
                     Len(line) >= 2 /\ line[1] = "class" /\ classMatch(line) # <<>>)
  IN [k \in DOMAIN declaring |-> classMatch(declaring[k])[1]]

\* The inheritance edges of the returned diagram.
InheritanceEdges == SelectSeq(result.data[1].edges, LAMBDA e : e.type = "inheritance")

\* C10: for every declaration `class C extends P` the diagram returned by
\* parseClassDiagram holds exactly one inheritance edge from C's node, and it
\* leads to a node of class P, when a class P is declared anywhere in the
\* text, before or after C; it holds no edge for the declaration when P is
\* never declared; and both ends of every inheritance edge are ids of nodes
\* of the diagram.
C10_InheritanceResolvedOverWholeText ==
  (ParseDone /\ parser = "class" /\ result.success) =>
    LET declarations == ClassDeclarations(input)
        diagram == result.data[1]
    IN /\ \A k \in DOMAIN declarations :
            declarations[k].parentClass # "" =>
              LET fromChild == {i \in DOMAIN InheritanceEdges : InheritanceEdges[i].from = k}
                  declared == \E j \in DOMAIN declarations :
                                declarations[j].className = declarations[k].parentClass
              IN IF declared
                 THEN /\ Cardinality(fromChild) = 1
                      /\ \A i \in fromChild :
                           LET target == FindIndex(diagram.nodes, InheritanceEdges[i].to)
                           IN /\ target # 0
                              /\ diagram.nodes[target].label = declarations[k].parentClass
                 ELSE fromChild = {}
       /\ \A i \in DOMAIN InheritanceEdges :
            /\ InheritanceEdges[i].from \in IdsOf(diagram.nodes)
            /\ InheritanceEdges[i].to \in IdsOf(diagram.nodes)
       /\ Len(InheritanceEdges) =
            Cardinality({k \in DOMAIN declarations :
                           /\ declarations[k].parentClass # ""
                           /\ \E j \in DOMAIN declarations :
                                declarations[j].className = declarations[k].parentClass})

\* C10 witness: a class that extends a class declared on a later line, and a
\* class that extends a class declared nowhere, have been parsed; the diagram
\* holds the edge of the first and none for the second.
C10_ForwardParentResolved ==
  /\ ParseDone /\ parser = "class" /\ result.success
  /\ \E k, j \in DOMAIN ClassDeclarations(input) :
       /\ k < j
       /\ ClassDeclarations(input)[k].parentClass = ClassDeclarations(input)[j].className
       /\ \E i \in DOMAIN InheritanceEdges :
            InheritanceEdges[i].from = k /\ InheritanceEdges[i].to = j
  /\ \E k \in DOMAIN ClassDeclarations(input) :
       /\ ClassDeclarations(input)[k].parentClass = "C"
       /\ \A i \in DOMAIN InheritanceEdges : InheritanceEdges[i].from # k

----------------------------------------------------------------------------
(* Claims about parseSequenceDiagram, checked under SpecParse.             *)

\* The message lines of a text in order: the matches of the lines that match
\* the message pattern.
MessageLines(inp) ==
  LET matching == SelectSeq(NonEmptyLines(inp), LAMBDA line : sequenceMatch(line) # <<>>)
  IN [k \in DOMAIN matching |-> sequenceMatch(matching[k])[1]]

\* The names on the message lines as they are met: from, to, from, to, ...
RECURSIVE NamesMet(_)
NamesMet(matches) ==
  IF Len(matches) = 0 THEN <<>>
  ELSE <<matches[1].from, matches[1].to>> \o NamesMet(Tail(matches))

\* The names met, each kept at its first appearance only.
FirstAppearances(names) ==
  LET firsts == {i \in DOMAIN names : \A j \in 1..(i - 1) : names[j] # names[i]}
      RECURSIVE keep(_)
      keep(i) == IF i > Len(names) THEN <<>>
                 ELSE (IF i \in firsts THEN <<names[i]>> ELSE <<>>) \o keep(i + 1)
  IN keep(1)

\* C11: parseSequenceDiagram returns one actor node per distinct actor name,
\* in the order in which the names first appear over the message lines, and
\* the k-th matched message line (from 0) yields the k-th edge, with
\* data.order = k, type sync for -> and async for -->, and from and to the
\* ids of the actor nodes named on the line, never empty or dangling.
C11_ActorsOnceAndMessagesInOrder ==
  (ParseDone /\ parser = "sequence") =>
    /\ result.success
    /\ LET diagram == result.data[1]
           matches == MessageLines(input)
           names == FirstAppearances(NamesMet(matches))
       IN /\ Len(diagram.nodes) = Len(names)
          /\ \A i \in DOMAIN diagram.nodes :
               /\ diagram.nodes[i].type = "actor"
               /\ diagram.nodes[i].label = names[i]
               /\ diagram.nodes[i].id # 0
          /\ \A i, j \in DOMAIN diagram.nodes :
               i # j => diagram.nodes[i].id # diagram.nodes[j].id
          /\ Len(diagram.edges) = Len(matches)
          /\ \A k \in DOMAIN diagram.edges :
               LET e == diagram.edges[k]
               IN /\ e.data.order = k - 1
                  /\ e.type = (IF matches[k].arrow = "->" THEN "sync" ELSE "async")
                  /\ e.from # 0 /\ e.to # 0
                  /\ \E i \in DOMAIN diagram.nodes :
                       diagram.nodes[i].id = e.from /\ diagram.nodes[i].label = matches[k].from
                  /\ \E i \in DOMAIN diagram.nodes :
                       diagram.nodes[i].id = e.to /\ diagram.nodes[i].label = matches[k].to

\* C11 witness: a text with a sync and an async message and an actor named on
\* two lines has been parsed: fewer actor nodes than names met, one edge per
\* message line.
C11_RepeatedActorAndBothArrows ==
  /\ ParseDone /\ parser = "sequence" /\ result.success
  /\ \E k, l \in DOMAIN MessageLines(input) :
       MessageLines(input)[k].arrow = "->" /\ MessageLines(input)[l].arrow = "-->"
  /\ Len(result.data[1].nodes) < Len(NamesMet(MessageLines(input)))
  /\ Len(result.data[1].nodes) >= 2
  /\ Len(result.data[1].edges) = Len(MessageLines(input))

----------------------------------------------------------------------------
(* Claims about parseMindmapDiagram, checked under SpecParse.              *)

\* The state of the loop of parseMindmapDiagram after the first k raw lines.
MindmapAfter(inp, k) ==
  mindmapLines(SubSeq(inp, 1, k), 1,
               [nodes |-> <<>>, edges |-> <<>>, nodeStack |-> <<>>,
                idsLeft |-> SerialIds(inp)])

\* The indexes of the edges that lead to the node of id `id`.
IncomingEdges(es, id) == {e \in DOMAIN es : es[e].to = id}

\* C12: after each line of the outline the ancestor stack of
\* parseMindmapDiagram holds strictly increasing levels from bottom to top;
\* the node of a line of level L has exactly one incoming edge, from the
\* nearest preceding node of a level strictly less than L, and no incoming
\* edge when there is no such node; so the edges form a forest.
C12_StackIncreasingAndParentIsNearestShallower ==
  (ParseDone /\ parser = "mindmap") =>
    /\ \A k \in 0..Len(input) :
         LET nodeStack == MindmapAfter(input, k).nodeStack
         IN \A i \in 1..(Len(nodeStack) - 1) : nodeStack[i].level < nodeStack[i + 1].level
    /\ LET ns == MindmapAfter(input, Len(input)).nodes
           es == MindmapAfter(input, Len(input)).edges
       IN /\ \A i \in DOMAIN ns :
               LET shallower == {j \in 1..(i - 1) : ns[j].level < ns[i].level}
                   incoming == IncomingEdges(es, ns[i].id)
               IN IF shallower = {} THEN incoming = {}
                  ELSE /\ Cardinality(incoming) = 1
                       /\ \A e \in incoming : es[e].from = ns[SetMax(shallower)].id
          /\ \A e \in DOMAIN es :
               \E i, j \in DOMAIN ns : i < j /\ es[e].from = ns[i].id /\ es[e].to = ns[j].id
          /\ result.success => result.data[1].edges = es

\* C12 witness: an outline whose third node is shallower than the second and
\* deeper than the first has been parsed: the second node was popped from the
\* stack and the third hangs under the first.
C12_PoppedBackToAncestor ==
  /\ ParseDone /\ parser = "mindmap" /\ result.success
  /\ LET ns == MindmapAfter(input, Len(input)).nodes
         es == MindmapAfter(input, Len(input)).edges
     IN /\ Len(ns) = 3
        /\ ns[1].level < ns[3].level /\ ns[3].level < ns[2].level
        /\ \E e \in DOMAIN es : es[e].from = ns[1].id /\ es[e].to = ns[3].id
        /\ Len(MindmapAfter(input, Len(input)).nodeStack) = 2

----------------------------------------------------------------------------
(* Claims about parseUsecaseDiagram, checked under SpecParse.              *)

\* Line k of the trimmed, non-empty lines is taken as a connection.
ConnectionAt(lines, k) ==
  /\ ~(Len(lines[k]) >= 2 /\ lines[k][1] = "actor")
  /\ looksLikeConnection(lines[k])
  /\ usecaseMatch(lines[k]) # <<>>

\* The actor named on connection line k is declared on an earlier line.
ActorDeclaredBefore(lines, k) ==
  \E j \in 1..(k - 1) :
    /\ Len(lines[j]) >= 2 /\ lines[j][1] = "actor"
    /\ Tail(lines[j]) = usecaseMatch(lines[k])[1].actorName

\* The numbers of a finite set of numbers in increasing order.
RECURSIVE Ascending(_)
Ascending(S) == IF S = {} THEN <<>> ELSE <<SetMin(S)>> \o Ascending(S \ {SetMin(S)})

\* C13: the diagram returned by parseUsecaseDiagram never holds two use-case
\* nodes of the same label: a use-case node is created at the first connection
\* line that names it, and every later connection to that name uses the id of
\* that node.
C13_UsecaseNodesUniqueByLabel ==
  (ParseDone /\ parser = "usecase") =>
    /\ result.success
    /\ LET lines == NonEmptyLines(input)
           connections == Ascending({k \in DOMAIN lines : ConnectionAt(lines, k)})
           named == [c \in DOMAIN connections |->
                       usecaseMatch(lines[connections[c]])[1].usecaseName]
           edged == Ascending({k \in DOMAIN lines :
                                 ConnectionAt(lines, k) /\ ActorDeclaredBefore(lines, k)})
           usecases == SelectSeq(result.data[1].nodes, LAMBDA n : n.type = "usecase")
           es == result.data[1].edges
       IN /\ \A i, j \in DOMAIN usecases :
               i # j => /\ usecases[i].label # usecases[j].label
                        /\ usecases[i].id # usecases[j].id
          /\ [i \in DOMAIN usecases |-> usecases[i].label] = FirstAppearances(named)
          /\ Len(es) = Len(edged)
          /\ \A e \in DOMAIN es :
               \E i \in DOMAIN usecases :
                 /\ usecases[i].id = es[e].to
                 /\ usecases[i].label = usecaseMatch(lines[edged[e]])[1].usecaseName

\* C13 witness: a text that names one use case on two connection lines has
\* been parsed: one node for it, and two edges that lead to that node.
C13_UsecaseNamedTwice ==
  /\ ParseDone /\ parser = "usecase" /\ result.success
  /\ LET usecases == SelectSeq(result.data[1].nodes, LAMBDA n : n.type = "usecase")
         es == result.data[1].edges
     IN /\ Len(usecases) = 1
        /\ Len(es) = 2
        /\ es[1].to = usecases[1].id /\ es[2].to = usecases[1].id

----------------------------------------------------------------------------
(* Two runs of a parser on one text, checked under SpecParse.              *)

\* Other outcomes of the calls of generateId on a text: the ids descending,
\* the ids rotated by one, and ids none of which the serial supply holds.
OtherIds(inp) ==
  LET n == 3 * Len(inp)
  IN {[k \in 1..n |-> n + 1 - k],
      [k \in 1..n |-> (k % n) + 1],
      [k \in 1..n |-> n + 2 * k]}

\* The type tag of a node or an edge, the empty string when it has none.
TypeTag(item) == IF "type" \in DOMAIN item THEN item.type ELSE ""

\* C14: a second run of the same parser on the same text, whatever ids
\* generateId returns in it, yields a diagram with as many nodes and edges as
\* the first and, position by position, the same node labels and type tags
\* and the same edge labels and types.
C14_SecondRunSameUpToIds ==
  ParseDone =>
    \A ids \in OtherIds(input) :
      LET again == parserOf(parser, input, ids)
      IN /\ again.success = result.success
         /\ result.success =>
              LET first == result.data[1]
                  second == again.data[1]
              IN /\ Len(second.nodes) = Len(first.nodes)
                 /\ Len(second.edges) = Len(first.edges)
                 /\ \A i \in DOMAIN first.nodes :
                      /\ second.nodes[i].label = first.nodes[i].label
                      /\ TypeTag(second.nodes[i]) = TypeTag(first.nodes[i])
                 /\ \A e \in DOMAIN first.edges :
                      /\ second.edges[e].label = first.edges[e].label
                      /\ TypeTag(second.edges[e]) = TypeTag(first.edges[e])

\* C14 witness: a text of several nodes and an edge has been parsed, and a
\* second run with other ids gives other node ids in the same positions.
C14_SecondRunWithOtherIds ==
  /\ ParseDone /\ result.success
  /\ Len(result.data[1].nodes) >= 2 /\ Len(result.data[1].edges) >= 1
  /\ \A ids \in OtherIds(input) :
       LET again == parserOf(parser, input, ids)
       IN /\ again.success
          /\ \E i \in DOMAIN result.data[1].nodes :
               again.data[1].nodes[i].id # result.data[1].nodes[i].id

----------------------------------------------------------------------------
(* Claims about positionMindmapNodesTree on the outlines parseMindmapDiagram *)
(* builds, checked under SpecParse.                                        *)

\* The nodes and edges of the outline before the layout.
Outline == mindmapExtract(input, SerialIds(input))

\* The vertical span the layout allocates to a node of the outline.
SpanOf(id) == getSubtreeHeight(Outline.nodes, Outline.edges, id)

\* The children of a node of the outline, in the order of the layout.
OutlineChildren(id) == childrenOf(Outline.nodes, Outline.edges, id)

\* The spans of the first k nodes of a list, added up.
SpansBefore(list, k) == SumOf([j \in 1..(k - 1) |-> SpanOf(list[j].id)])

\* The vertical centre of the node of that id in the returned diagram.
CentreOf(id) ==
  LET laidOut == result.data[1].nodes
      n == laidOut[FindIndex(laidOut, id)]
  IN n.y + n.height \div 2

\* The nodes of the list are laid out one under the other from y = top on,
\* each centred in a span of its own height.
TiledFrom(list, top) ==
  \A k \in DOMAIN list :
    CentreOf(list[k].id) = top + SpansBefore(list, k) + SpanOf(list[k].id) \div 2

\* C15: in positionMindmapNodesTree the vertical span allocated to a node
\* with children, getSubtreeHeight of the node, is the sum of the spans of
\* its children, a leaf having a span of 60; the children are laid out in
\* their spans one under the other, centred on the node. For the root this
\* holds over its right and its left half taken together.
C15_ChildSpansAddUpToNodeSpan ==
  (ParseDone /\ parser = "mindmap" /\ result.success) =>
    LET laidOut == result.data[1].nodes
        root == laidOut[1]
    IN /\ \A i \in DOMAIN laidOut :
            LET children == OutlineChildren(laidOut[i].id)
            IN IF Len(children) = 0 THEN SpanOf(laidOut[i].id) = 60
               ELSE /\ SpanOf(laidOut[i].id) = SpansBefore(children, Len(children) + 1)
                    /\ i # 1 =>
                         TiledFrom(children,
                                   CentreOf(laidOut[i].id) - SpanOf(laidOut[i].id) \div 2)
       /\ LET children == OutlineChildren(root.id)
              half == CeilDiv(Len(children), 2)
              right == SubSeq(children, 1, half)
              left == SubSeq(children, half + 1, Len(children))
              rightSpan == SpansBefore(right, Len(right) + 1)
              leftSpan == SpansBefore(left, Len(left) + 1)
          IN /\ Len(children) > 0 => rightSpan + leftSpan = SpanOf(root.id)
             /\ CentreOf(root.id) = 400
             /\ TiledFrom(right, 400 - rightSpan \div 2)
             /\ TiledFrom(left, 400 - leftSpan \div 2)

\* C15 witness: an outline whose root has one branch with two leaves under it
\* has been laid out: the branch has a span of two units and the root too.
C15_BranchWithTwoLeaves ==
  /\ ParseDone /\ parser = "mindmap" /\ result.success
  /\ Len(result.data[1].nodes) = 4
  /\ \E i \in DOMAIN result.data[1].nodes :
       /\ i # 1
       /\ Len(OutlineChildren(result.data[1].nodes[i].id)) = 2
       /\ SpanOf(result.data[1].nodes[i].id) = 120
  /\ SpanOf(result.data[1].nodes[1].id) = 120

----------------------------------------------------------------------------
(* Further claims about positionNodesHierarchically, checked under         *)
(* SpecLayout.                                                             *)

\* The ids of the list, each as often as it occurs.
IdCount(list, id) == Cardinality({i \in DOMAIN list : list[i].id = id})

\* C16: for a non-empty list of nodes with distinct ids and any list of edges
\* (cycles, self-loops, duplicate edges, edges from or to an id of no node)
\* positionNodesHierarchically returns without an error, and returns every
\* input node exactly once, with an x and a y.
C16_EveryNodeLaidOutOnce ==
  (layPc = "done" /\ Len(layoutNodes) > 0) =>
    /\ ~positioned.threw
    /\ Len(positioned.nodes) = Len(layoutNodes)
    /\ \A i \in DOMAIN layoutNodes :
         IdCount(positioned.nodes, layoutNodes[i].id) = 1
    /\ \A i \in DOMAIN positioned.nodes :
         /\ {"x", "y"} \subseteq DOMAIN positioned.nodes[i]
         /\ positioned.nodes[i].x \in Nat /\ positioned.nodes[i].y \in Nat
         /\ \E j \in DOMAIN layoutNodes :
              /\ layoutNodes[j].id = positioned.nodes[i].id
              /\ layoutNodes[j].type = positioned.nodes[i].type

\* C16 witness: two nodes of no root type that lie on a cycle have been laid
\* out.
C16_CycleWithoutRootLaidOut ==
  /\ layPc = "done" /\ ~positioned.threw
  /\ Len(layoutNodes) = 2
  /\ \A i \in DOMAIN layoutNodes : ~IsRootType(layoutNodes[i])
  /\ \E e, f \in DOMAIN layoutEdges :
       /\ layoutEdges[e].from = 1 /\ layoutEdges[e].to = 2
       /\ layoutEdges[f].from = 2 /\ layoutEdges[f].to = 1
  /\ Len(positioned.nodes) = 2

----------------------------------------------------------------------------
(* The diagram parseMindmapDiagram returns, checked under SpecParse.       *)

\* C17 (as claimed): the diagram returned by parseMindmapDiagram holds, after
\* the layout by positionMindmapNodesTree, exactly the nodes the parser
\* created, each exactly once, also when the outline has several lines of
\* level 0 or starts with an indented line; and both ends of every edge of
\* the diagram are nodes of the diagram.
C17_MindmapKeepsEveryNode ==
  (ParseDone /\ parser = "mindmap" /\ result.success) =>
    LET diagram == result.data[1]
    IN /\ Len(diagram.nodes) = Len(Outline.nodes)
       /\ \A i \in DOMAIN Outline.nodes :
            IdCount(diagram.nodes, Outline.nodes[i].id) = 1
       /\ \A e \in DOMAIN diagram.edges :
            /\ diagram.edges[e].from \in IdsOf(diagram.nodes)
            /\ diagram.edges[e].to \in IdsOf(diagram.nodes)

----------------------------------------------------------------------------
(* The nodes parseClassDiagram returns, checked under SpecParse.           *)

\* C18 (as claimed): in every diagram parseClassDiagram returns with
\* success = true the node ids are pairwise distinct, and there is exactly
\* one node for each class declaration line that matched the grammar,
\* whatever the order of class lines, member lines, closing braces and lines
\* of no rule (generateId returning a fresh id on each call).
C18_OneNodePerClassDeclaration ==
  (ParseDone /\ parser = "class" /\ result.success) =>
    LET laidOut == result.data[1].nodes
        declarations == ClassDeclarations(input)
    IN /\ \A i, j \in DOMAIN laidOut : i # j => laidOut[i].id # laidOut[j].id
       /\ Len(laidOut) = Len(declarations)
       /\ \A k \in DOMAIN declarations :
            /\ IdCount(laidOut, k) = 1
            /\ laidOut[FindIndex(laidOut, k)].label = declarations[k].className
            /\ laidOut[FindIndex(laidOut, k)].type = "class"

----------------------------------------------------------------------------
(* Lines of no rule, checked under SpecParse.                              *)

\* Lines that match no rule of the grammar of a parser: a word, and a line
\* that begins like a rule and does not match its pattern.
NoRuleLines(p) ==
  CASE p = "class" -> {<<"note">>, <<"class", "{">>, <<"+", "name">>}
    [] p = "sequence" -> {<<"note">>, <<"X", "->", "Y">>}
    [] p = "flow" -> {<<"note">>, <<"step", "-->", "End">>}
    [] p = "usecase" -> {<<"note">>, <<"U", "->", "(", ")">>}

\* The text with the line inserted after its first k lines.
WithLineAfter(inp, k, line) ==
  SubSeq(inp, 1, k) \o <<line>> \o SubSeq(inp, k + 1, Len(inp))

\* The label of the node of that id, the empty string when there is none.
LabelOfId(ns, id) == IF FindIndex(ns, id) = 0 THEN "" ELSE ns[FindIndex(ns, id)].label

\* What a returned diagram shows, ids and positions left out: the nodes with
\* label, type, members and size, the edges with the labels of their ends and
\* their type.
DiagramShown(returned) ==
  IF ~returned.success THEN <<>>
  ELSE LET diagram == returned.data[1]
       IN <<[i \in DOMAIN diagram.nodes |->
               [label |-> diagram.nodes[i].label,
                type |-> TypeTag(diagram.nodes[i]),
                data |-> IF "data" \in DOMAIN diagram.nodes[i]
                         THEN diagram.nodes[i].data ELSE <<>>,
                width |-> diagram.nodes[i].width,
                height |-> diagram.nodes[i].height]],
            [e \in DOMAIN diagram.edges |->
               [from |-> LabelOfId(diagram.nodes, diagram.edges[e].from),
                to |-> LabelOfId(diagram.nodes, diagram.edges[e].to),
                type |-> TypeTag(diagram.edges[e])]]>>

\* C19 (as claimed): for the class, sequence, flow and use-case parsers a
\* line that matches no rule of the grammar, inserted at any position of the
\* text, leaves the diagram as it is without the line: the same nodes
\* (labels, types, class members, sizes) and the same edges (ends by label,
\* types).
C19_LineOfNoRuleChangesNothing ==
  (ParseDone /\ parser \in {"class", "sequence", "flow", "usecase"}) =>
    \A k \in 0..Len(input) :
      \A line \in NoRuleLines(parser) :
        LET longer == WithLineAfter(input, k, line)
            returned == parserOf(parser, longer, SerialIds(longer))
        IN /\ returned.success = result.success
           /\ DiagramShown(returned) = DiagramShown(result)

----------------------------------------------------------------------------
(* The layers of the BFS, checked under SpecLayout.                        *)

\* The ids in the order in which the BFS while loop dequeues them for the
\* first time, that is, in which it adds them to visited.
RECURSIVE dequeueOrder(_, _, _, _)
dequeueOrder(ns, es, queue, visited) ==
  IF Len(queue) = 0 THEN <<>>
  ELSE LET n == queue[1].node
       IN IF n.id \in visited
          THEN dequeueOrder(ns, es, Tail(queue), visited)
          ELSE <<n.id>> \o
               dequeueOrder(ns, es,
                 Tail(queue) \o layerChildren(ns, adjacencyOf(es, n.id), 1,
                                              queue[1].layer, visited \cup {n.id}),
                 visited \cup {n.id})

\* The order of first dequeues of the call under check.
LayoutDequeueOrder ==
  LET roots == rootNodesOf(layoutNodes, layoutEdges)
  IN dequeueOrder(layoutNodes, layoutEdges,
                  [k \in DOMAIN roots |-> [node |-> roots[k], layer |-> 0]], {})

\* The root set: the nodes without an incoming edge or of a root type.
RootSet ==
  LET roots == rootNodesWithoutFallback(layoutNodes, layoutEdges)
  IN {roots[k].id : k \in DOMAIN roots}

LayoutNodeIds == {layoutNodes[k].id : k \in DOMAIN layoutNodes}

\* The nodes at the end of a directed path of at most k edges from the root set.
RECURSIVE ReachedWithin(_)
ReachedWithin(k) ==
  IF k = 0 THEN RootSet
  ELSE LET before == ReachedWithin(k - 1)
       IN before \cup {layoutEdges[e].to : e \in {d \in DOMAIN layoutEdges :
                          /\ layoutEdges[d].from \in before
                          /\ layoutEdges[d].to \in LayoutNodeIds}}

ReachableFromRootSet == ReachedWithin(Len(layoutNodes))

\* The length of the shortest directed path from the root set to the node.
ShortestPath(id) ==
  CHOOSE k \in 0..Len(layoutNodes) :
    /\ id \in ReachedWithin(k)
    /\ (k = 0 \/ id \notin ReachedWithin(k - 1))

\* The layers (from 0) that hold the node.
LayersOfId(id) ==
  {k - 1 : k \in {j \in DOMAIN positioned.layers :
                    \E i \in DOMAIN positioned.layers[j] : positioned.layers[j][i] = id}}

\* The position of the id in a list of ids, 0 when it is not in it.
PlaceIn(list, id) ==
  IF \E i \in DOMAIN list : list[i] = id
  THEN CHOOSE i \in DOMAIN list : list[i] = id /\ \A j \in 1..(i - 1) : list[j] # id
  ELSE 0

\* C20: every node reachable from the root set (the nodes without an incoming
\* edge or of type start, root or actor) is in the layer whose number is the
\* length of the shortest directed path from a root to it, and in no other;
\* within a layer such nodes stand in the order in which the BFS dequeued
\* them for the first time.
C20_LayerIsShortestPathAndOrderIsDequeueOrder ==
  LayoutDone =>
    \A reachable \in {ReachableFromRootSet} :
      /\ \A id \in reachable : LayersOfId(id) = {ShortestPath(id)}
      /\ \A order \in {LayoutDequeueOrder} :
           \A k \in DOMAIN positioned.layers :
             \A i, j \in DOMAIN positioned.layers[k] :
               (/\ i < j
                /\ positioned.layers[k][i] \in reachable
                /\ positioned.layers[k][j] \in reachable) =>
                 /\ PlaceIn(order, positioned.layers[k][i]) > 0
                 /\ PlaceIn(order, positioned.layers[k][i])
                      < PlaceIn(order, positioned.layers[k][j])

\* Two nodes of a root type and an edge from the first to the second: the
\* second is queued as a root and again as a child of the first, and stays
\* in layer 0 behind the first.
C20_RootQueuedAgainAsChild ==
  /\ LayoutDone
  /\ Len(layoutNodes) = 2
  /\ \A k \in DOMAIN layoutNodes : IsRootType(layoutNodes[k])
  /\ \E e \in DOMAIN layoutEdges :
       layoutEdges[e].from = layoutNodes[1].id /\ layoutEdges[e].to = layoutNodes[2].id
  /\ positioned.layers = <<<<layoutNodes[1].id, layoutNodes[2].id>>>>
  /\ ShortestPath(layoutNodes[2].id) = 0
  /\ LayoutDequeueOrder = <<layoutNodes[1].id, layoutNodes[2].id>>

----------------------------------------------------------------------------
(* The spacing of the top-down layout, checked under SpecLayout.           *)

\* C21 (as claimed): in the top-down layout the spacing applied follows the
\* size of each node: the next layer lies at least max(verticalSpacing,
\* height + 30) below a node, the next node of its layer at least
\* max(horizontalSpacing, width + 50) to its right, and so a node taller
\* than verticalSpacing does not overlap a node of the following layer.
C21_SpacingFollowsNodeSize ==
  (LayoutDone /\ options.layoutDirection = "top-down") =>
    \A k \in DOMAIN positioned.layers :
      \A i \in DOMAIN positioned.layers[k] :
        LET n == PositionedOf(positioned.layers[k][i])
        IN /\ (k + 1 \in DOMAIN positioned.layers) =>
                \A j \in DOMAIN positioned.layers[k + 1] :
                  LET below == PositionedOf(positioned.layers[k + 1][j])
                  IN /\ below.y - n.y >= Max(options.verticalSpacing, n.height + 30)
                     /\ ~InteriorsOverlap(n, below)
           /\ (i + 1 \in DOMAIN positioned.layers[k]) =>
                PositionedOf(positioned.layers[k][i + 1]).x - n.x
                  >= Max(options.horizontalSpacing, n.width + 50)

----------------------------------------------------------------------------
(* The layers of the flow layout, checked under SpecParse.                 *)

\* The graph parseFlowDiagram built from the text, and its layout.
FlowGraph == flowExtract(input, SerialIds(input))

FlowLayout == flowPositionNodesHierarchically(FlowGraph.nodes, FlowGraph.edges)

\* The ids of the terminal nodes: of type end, or without an outgoing edge.
FlowTerminals ==
  {FlowGraph.nodes[k].id : k \in {j \in DOMAIN FlowGraph.nodes :
      \/ FlowGraph.nodes[j].type = "end"
      \/ Len(adjacencyOf(FlowGraph.edges, FlowGraph.nodes[j].id)) = 0}}

\* How often the id stands in the layers.
RECURSIVE TimesInLayers(_, _)
TimesInLayers(layers, id) ==
  IF Len(layers) = 0 THEN 0
  ELSE Cardinality({i \in DOMAIN layers[1] : layers[1][i] = id})
       + TimesInLayers(Tail(layers), id)

\* C22 (as claimed): after consolidateEndNodes all terminal nodes of a flow
\* graph (type end, or no outgoing edge) are in one and the same layer and in
\* no other, and every node of the graph is in exactly one layer, once.
C22_TerminalsShareOneLayer ==
  (ParseDone /\ parser = "flow" /\ Len(FlowGraph.nodes) > 0) =>
    \A layout \in {FlowLayout} :
      /\ \E k \in DOMAIN layout.layers :
           \A t \in FlowTerminals :
             \A j \in DOMAIN layout.layers :
               (\E i \in DOMAIN layout.layers[j] : layout.layers[j][i] = t) <=> j = k
      /\ \A n \in DOMAIN FlowGraph.nodes :
           TimesInLayers(layout.layers, FlowGraph.nodes[n].id) = 1

----------------------------------------------------------------------------
(* The rectangles of a layer of the flow layout, checked under SpecParse.  *)

\* The node of that id as the flow layout positioned it.
FlowPositionedOf(layout, id) == layout.nodes[FindIndex(layout.nodes, id)]

\* C30 (as claimed): in the flow layout two distinct nodes of one layer,
\* however many nodes the layer holds, never get overlapping rectangles
\* after the sizing by type and after the x of start and end nodes has been
\* clamped to x >= 100 and x + width <= 500.
C30_FlowLayerRectanglesDisjoint ==
  (ParseDone /\ parser = "flow" /\ Len(FlowGraph.nodes) > 0) =>
    \A layout \in {FlowLayout} :
      \A k \in DOMAIN layout.layers :
        \A i, j \in DOMAIN layout.layers[k] :
          i < j => ~InteriorsOverlap(FlowPositionedOf(layout, layout.layers[k][i]),
                                     FlowPositionedOf(layout, layout.layers[k][j]))

----------------------------------------------------------------------------
(* Calls of positionMindmapNodesTree on any node and edge list.            *)

\* getSubtreeHeight(nodeId) never returns: callers holds the ids of the calls
\* of getSubtreeHeight on the stack, none of which has set heightCache yet,
\* so a call for one of them descends the same way again, until the engine
\* throws a RangeError for the call stack.
RECURSIVE overflowsStack(_, _, _, _)
overflowsStack(ns, es, nodeId, callers) ==
  \/ nodeId \in callers
  \/ LET children == childrenOf(ns, es, nodeId)
     IN \E k \in DOMAIN children :
          overflowsStack(ns, es, children[k].id, callers \cup {nodeId})

\* One call of positionMindmapNodesTree: [threw, nodes]. The heights of the
\* root's children are asked for before anything under them is positioned.
positionMindmapNodesTreeCall(ns, es) ==
  IF Len(ns) = 0 THEN [threw |-> FALSE, nodes |-> <<>>]
  ELSE LET orphans == {i \in DOMAIN ns : \A k \in DOMAIN es : es[k].to # ns[i].id}
           rootNode == IF orphans # {} THEN ns[SetMin(orphans)] ELSE ns[1]
           rootChildren == childrenOf(ns, es, rootNode.id)
       IN IF \E k \in DOMAIN rootChildren : overflowsStack(ns, es, rootChildren[k].id, {})
          THEN [threw |-> TRUE, nodes |-> <<>>]
          ELSE [threw |-> FALSE, nodes |-> positionMindmapNodesTree(ns, es)]

\* The labels of the node lists: the children sort either way. The ids are
\* distinct; the edge lists run over them and one id of no node.
TreeNodeLists ==
  UNION {[1..n -> {"a", "b"}] : n \in 0..MaxLayoutNodes}

InitTree ==
  /\ \E labels \in TreeNodeLists :
       layoutNodes = [i \in DOMAIN labels |-> [id |-> i, label |-> <<labels[i]>>]]
  /\ layoutEdges \in LayoutEdgeLists(Len(layoutNodes))
  /\ options = <<>>
  /\ positioned = <<>>
  /\ layPc = "input"
  /\ PagIdle
  /\ ParseIdle
  /\ GeoIdle
  /\ UiIdle

\* One call of positionMindmapNodesTree(layoutNodes, layoutEdges).
LayoutTree ==
  /\ layPc = "input"
  /\ positioned' = positionMindmapNodesTreeCall(layoutNodes, layoutEdges)
  /\ layPc' = "done"
  /\ UNCHANGED <<layoutNodes, layoutEdges, options>>
  /\ UNCHANGED pagVars
  /\ UNCHANGED parseVars
  /\ UNCHANGED geoVars
  /\ UNCHANGED uiVars

NextTree == LayoutTree

SpecTree == InitTree /\ [][NextTree]_vars

\* C23 (as claimed): positionMindmapNodesTree returns for every node list and
\* every edge list, also when the edges hold a cycle, a self-loop or two
\* edges into one node.
C23_TreeLayoutAlwaysReturns ==
  layPc = "done" => ~positioned.threw

----------------------------------------------------------------------------
(* The pages of a sequence diagram, checked under SpecPag.                 *)

\* The edges of the pages from page p on, one page after the other.
RECURSIVE PageEdgesFrom(_)
PageEdgesFrom(p) ==
  IF p > Len(PageList) THEN <<>> ELSE PageList[p].edges \o PageEdgesFrom(p + 1)

\* A sequence diagram has been split: it did not fit, and the call returned.
SequenceSplit == PagDone /\ diagramType = "sequence" /\ ~InputFits

\* Every message joins two actor nodes of the diagram.
MessagesJoinActors ==
  \A e \in DOMAIN edges :
    \A end \in {edges[e].from, edges[e].to} :
      \E i \in DOMAIN nodes : nodes[i].id = end /\ nodes[i].type = "actor"

\* What the claim says of the pages of a split sequence diagram.
SequencePagesAsClaimed ==
  /\ \A p \in DOMAIN PageList :
       /\ PageList[p].nodes = SelectSeq(nodes, LAMBDA n : n.type = "actor")
       /\ Len(PageList[p].edges) <= (config.maxHeight - 200) \div 60
  /\ PageEdgesFrom(1) = edges

----------------------------------------------------------------------------
(* Termination and page numbering of paginateDiagram, under SpecPag.       *)

\* C28 (as claimed): paginateDiagram returns a finite list of pages for
\* every diagram type, every node and edge list and every config with
\* positive maxWidth and maxHeight.
C28_PaginateDiagramReturns ==
  (pagPc = "done" /\ config.maxWidth > 0 /\ config.maxHeight > 0) => pages.terminated

\* C29 (as claimed): for a non-empty node list paginateDiagram returns a
\* non-empty list of pages whose i-th page, counted from 1, has pageNumber i
\* and totalPages the length of the list, for every diagram type and
\* strategy.
C29_PagesNumberedFromOne ==
  (PagDone /\ Len(nodes) > 0) =>
    /\ Len(PageList) > 0
    /\ \A i \in DOMAIN PageList :
         PageList[i].pageNumber = i /\ PageList[i].totalPages = Len(PageList)

----------------------------------------------------------------------------
(* The UI handlers that parse the text, and the store actions they call.   *)

\* The store actions (null is <<>>, a value v is <<v>>).
setDiagramData(state, data) == [state EXCEPT !.currentDiagram = data, !.error = <<>>]

setError(state, error) == [state EXCEPT !.error = error, !.isLoading = FALSE]

setLoading(state, loading) == [state EXCEPT !.isLoading = loading]


\* !text.trim(): the text holds nothing but white space.
TextIsBlank(inp) ==
  \A k \in DOMAIN inp : \A c \in DOMAIN inp[k] : inp[k][c] = " "

\* result.error || fallback
ErrorOr(returned, fallback) ==
  IF returned.error = <<>> \/ returned.error = <<"">> THEN fallback ELSE returned.error[1]

\* The message the handler passes to setError when the attempt failed:
\* debouncedParse reads result.error, handleDrawCode the message of the Error
\* parseDiagramText threw.
FailureMessage(h, returned) ==
  IF h = "debouncedParse" THEN ErrorOr(returned, "Failed to parse diagram")
  ELSE ErrorOr(returned, "Parsing failed")

Handlers == {"handleDrawCode", "debouncedParse"}

\* The store before the handler runs: empty, showing a diagram, or showing
\* an error.
StoresBefore ==
  {[currentDiagram |-> <<>>, error |-> <<>>, isLoading |-> FALSE],
   [currentDiagram |-> <<"previous diagram">>, error |-> <<>>, isLoading |-> FALSE],
   [currentDiagram |-> <<>>, error |-> <<"previous error">>, isLoading |-> FALSE]}

InitUi ==
  /\ handler \in Handlers
  /\ store \in StoresBefore
  /\ uiPc = "start"
  /\ parser \in Parsers
  /\ input \in Inputs(parser)
  /\ result = <<>>
  /\ parsePc = "input"
  /\ PagIdle
  /\ LayIdle
  /\ GeoIdle

\* The handler is entered. On a blank text handleDrawCode does nothing and
\* debouncedParse clears the diagram; otherwise debouncedParse sets the
\* loading flag.
UiStart ==
  /\ uiPc = "start"
  /\ IF TextIsBlank(input)
     THEN /\ uiPc' = "done"
          /\ store' = IF handler = "debouncedParse" THEN setDiagramData(store, <<>>)
                      ELSE store
     ELSE /\ uiPc' = "parse"
          /\ store' = IF handler = "debouncedParse" THEN setLoading(store, TRUE)
                      ELSE store
  /\ UNCHANGED <<handler, parseVars>>
  /\ UNCHANGED <<pagVars, layVars, geoVars>>

\* The parser of config.type runs; handleDrawCode calls it through
\* parseDiagramText, which throws when the result is no success.
UiParse ==
  /\ uiPc = "parse"
  /\ result' = parserOf(parser, input, SerialIds(input))
  /\ parsePc' = "done"
  /\ uiPc' = "first"
  /\ UNCHANGED <<parser, input, store, handler>>
  /\ UNCHANGED <<pagVars, layVars, geoVars>>

\* The first store action of the branch taken.
UiFirstStoreAction ==
  /\ uiPc = "first"
  /\ store' = IF result.success
              THEN setDiagramData(store, result.data)
              ELSE setError(store, <<FailureMessage(handler, result)>>)
  /\ uiPc' = "second"
  /\ UNCHANGED <<handler, parseVars>>
  /\ UNCHANGED <<pagVars, layVars, geoVars>>

\* The second store action of the branch taken.
UiSecondStoreAction ==
  /\ uiPc = "second"
  /\ store' = IF result.success
              THEN setError(store, <<>>)
              ELSE setDiagramData(store, <<>>)
  /\ uiPc' = IF handler = "debouncedParse" THEN "finally" ELSE "done"
  /\ UNCHANGED <<handler, parseVars>>
  /\ UNCHANGED <<pagVars, layVars, geoVars>>

\* finally { setLoading(false) }
UiFinally ==
  /\ uiPc = "finally"
  /\ store' = setLoading(store, FALSE)
  /\ uiPc' = "done"
  /\ UNCHANGED <<handler, parseVars>>
  /\ UNCHANGED <<pagVars, layVars, geoVars>>

NextUi ==
  \/ UiStart
  \/ UiParse
  \/ UiFirstStoreAction
  \/ UiSecondStoreAction
  \/ UiFinally

SpecUi == InitUi /\ [][NextUi]_vars

\* The attempt of the handler has failed, and the handler has finished.
FailedAttemptHandled == uiPc = "done" /\ parsePc = "done" /\ ~result.success

\* C27 (as claimed): whenever a parse attempt started from the UI fails,
\* then once the handler has run all its store actions the store holds the
\* failure message as its error, not null, and no current diagram.
C27_FailureLeavesErrorInStore ==
  FailedAttemptHandled =>
    /\ store.error = <<FailureMessage(handler, result)>>
    /\ store.currentDiagram = <<>>

----------------------------------------------------------------------------
(* Edge geometry: getNodeConnectionPoint and getDiamondConnectionPoint.    *)
(* Widths and heights are even, so that the halves are whole numbers, and  *)
(* a bias of 1.3 or 1.8 is compared in tenths.                             *)

\* ['root', 'branch', 'leaf'].includes(type): x, y is the centre of the node.
IsMindmapType(type) == type \in {"root", "branch", "leaf"}

\* effectiveAbsY > absX with effectiveAbsY = absY * verticalBias, the bias
\* given in tenths.
VerticalWins(dx, dy, biasTenths) == Abs(dy) * biasTenths > Abs(dx) * 10

getDiamondConnectionPoint(node, targetNode) ==
  LET centerX == node.x + node.width \div 2
      centerY == node.y + node.height \div 2
      targetCenterX == targetNode.x + targetNode.width \div 2
      targetCenterY == targetNode.y + targetNode.height \div 2
      dx == targetCenterX - centerX
      dy == targetCenterY - centerY
  IN IF VerticalWins(dx, dy, 18)
     THEN IF dy > 0 THEN [x |-> centerX, y |-> node.y + node.height]
          ELSE [x |-> centerX, y |-> node.y]
     ELSE IF dx > 0 THEN [x |-> node.x + node.width, y |-> centerY]
          ELSE [x |-> node.x, y |-> centerY]

getNodeConnectionPoint(node, targetNode) ==
  IF node.type = "decision" THEN getDiamondConnectionPoint(node, targetNode)
  ELSE LET centred == IsMindmapType(node.type)
           nodeCenterX == IF centred THEN node.x ELSE node.x + node.width \div 2
           nodeCenterY == IF centred THEN node.y ELSE node.y + node.height \div 2
           nodeLeft == IF centred THEN node.x - node.width \div 2 ELSE node.x
           nodeTop == IF centred THEN node.y - node.height \div 2 ELSE node.y
           nodeRight == IF centred THEN node.x + node.width \div 2 ELSE node.x + node.width
           nodeBottom == IF centred THEN node.y + node.height \div 2
                         ELSE node.y + node.height
           targetCenterX == IF IsMindmapType(targetNode.type) THEN targetNode.x
                            ELSE targetNode.x + targetNode.width \div 2
           targetCenterY == IF IsMindmapType(targetNode.type) THEN targetNode.y
                            ELSE targetNode.y + targetNode.height \div 2
           dx == targetCenterX - nodeCenterX
           dy == targetCenterY - nodeCenterY
           verticalBias ==
             IF node.type \in {"start", "end", "process", "decision", "input", "output"}
             THEN 13 ELSE 10
       IN IF VerticalWins(dx, dy, verticalBias)
          THEN IF dy > 0 THEN [x |-> nodeCenterX, y |-> nodeBottom]
               ELSE [x |-> nodeCenterX, y |-> nodeTop]
          ELSE IF dx > 0 THEN [x |-> nodeRight, y |-> nodeCenterY]
               ELSE [x |-> nodeLeft, y |-> nodeCenterY]

\* A decision, a node of the flow types, a mind-map node and a node of
\* another type; the source at the origin, the target around it, also
\* straight above, below and beside it and where bias * |dy| = |dx|.
GeoNodeTypes == {"decision", "process", "branch", "class"}
GeoSizes == {<<100, 80>>, <<400, 40>>}
GeoOffsets == {-260, -130, 0, 100, 180}

GeoNodes(offsets) ==
  {[type |-> t, x |-> x, y |-> y, width |-> z[1], height |-> z[2]] :
     t \in GeoNodeTypes, x \in offsets, y \in offsets, z \in GeoSizes}

InitConnect ==
  /\ geoArgs \in [node : GeoNodes({0}), targetNode : GeoNodes(GeoOffsets)]
  /\ geoOut = <<>>
  /\ geoPc = "input"
  /\ PagIdle
  /\ LayIdle
  /\ ParseIdle
  /\ UiIdle

\* One call of getNodeConnectionPoint(node, targetNode).
ConnectionPoint ==
  /\ geoPc = "input"
  /\ geoOut' = getNodeConnectionPoint(geoArgs.node, geoArgs.targetNode)
  /\ geoPc' = "done"
  /\ UNCHANGED geoArgs
  /\ UNCHANGED <<pagVars, layVars, parseVars, uiVars>>

NextConnect == ConnectionPoint

SpecConnect == InitConnect /\ [][NextConnect]_vars

\* The centre of a node as the claim takes it: x, y for a root, branch or
\* leaf, the middle of the rectangle from x, y otherwise.
CentreAsClaimed(n) ==
  IF IsMindmapType(n.type) THEN [x |-> n.x, y |-> n.y]
  ELSE [x |-> n.x + n.width \div 2, y |-> n.y + n.height \div 2]

\* The bias of the claim, in tenths.
BiasAsClaimed(type) ==
  IF type = "decision" THEN 18
  ELSE IF type \in {"start", "end", "process", "input", "output"} THEN 13
  ELSE 10

\* The side midpoint the claim names for the call.
PointAsClaimed(node, targetNode) ==
  LET c == CentreAsClaimed(node)
      dx == CentreAsClaimed(targetNode).x - c.x
      dy == CentreAsClaimed(targetNode).y - c.y
  IN IF BiasAsClaimed(node.type) * Abs(dy) > 10 * Abs(dx)
     THEN [x |-> c.x, y |-> IF dy > 0 THEN c.y + node.height \div 2
                            ELSE c.y - node.height \div 2]
     ELSE [x |-> IF dx > 0 THEN c.x + node.width \div 2 ELSE c.x - node.width \div 2,
           y |-> c.y]

\* C26 (as claimed): getNodeConnectionPoint returns the midpoint of a side of
\* the source rectangle (x, y the centre for root, branch and leaf nodes, the
\* top-left corner otherwise): the bottom or top midpoint exactly when
\* bias * |dy| > |dx| (bias 1.8 for a decision, 1.3 for start, end, process,
\* input and output, 1.0 otherwise), bottom if dy > 0, top otherwise; else
\* the right midpoint if dx > 0, the left one otherwise; dx and dy are the
\* differences of the two centres.
C26_ConnectionPointIsSideMidpoint ==
  geoPc = "done" => geoOut = PointAsClaimed(geoArgs.node, geoArgs.targetNode)

----------------------------------------------------------------------------
(* Edge geometry: getMermaidStylePathWithSpacing. The end points differ by *)
(* even numbers, so that the middle of the path is a whole number, and the *)
(* offset (edgeIndex - (total - 1) / 2) * 20 is taken in halves times 10.  *)

MaxParallelEdges == 3

getMermaidStylePathWithSpacing(from, to, edgeIndex, totalParallelEdges) ==
  LET dx == to.x - from.x
      dy == to.y - from.y
      offset == IF totalParallelEdges > 1
                THEN (2 * edgeIndex - (totalParallelEdges - 1)) * 10 ELSE 0
      midY == from.y + dy \div 2
      midX == from.x + dx \div 2
  IN IF Abs(dy) > Abs(dx)
     THEN << from,
             [x |-> from.x, y |-> midY],
             [x |-> to.x + offset, y |-> midY],
             [x |-> to.x, y |-> midY],
             to >>
     ELSE << from,
             [x |-> midX, y |-> from.y],
             [x |-> midX, y |-> to.y + offset],
             [x |-> midX, y |-> to.y],
             to >>

\* End points of the edges: the target above, below and beside the source,
\* nearer in x than in y and the other way round.
PathCoordinates == {-40, 0, 20, 60}
PathPoints(coordinates) == [x : coordinates, y : coordinates]

InitPath ==
  /\ geoArgs \in [from : PathPoints({0, 20}), to : PathPoints(PathCoordinates),
                  totalParallelEdges : 1..MaxParallelEdges]
  /\ geoOut = <<>>
  /\ geoPc = "input"
  /\ PagIdle
  /\ LayIdle
  /\ ParseIdle
  /\ UiIdle

\* The path of the next of the parallel edges between the two end points:
\* one call with edgeIndex = 0, 1, ... for each of them.
RoutePath ==
  /\ geoPc = "input"
  /\ geoOut' = Append(geoOut,
                      getMermaidStylePathWithSpacing(geoArgs.from, geoArgs.to, Len(geoOut),
                                                     geoArgs.totalParallelEdges))
  /\ geoPc' = IF Len(geoOut) + 1 = geoArgs.totalParallelEdges THEN "done" ELSE "input"
  /\ UNCHANGED geoArgs
  /\ UNCHANGED <<pagVars, layVars, parseVars, uiVars>>

NextPath == RoutePath

SpecPath == InitPath /\ [][NextPath]_vars

\* The whole-number points of the segment from p to q, which runs along an
\* axis.
PointsBetween(p, q) ==
  {[x |-> x, y |-> y] : x \in Min(p.x, q.x)..Max(p.x, q.x),
                        y \in Min(p.y, q.y)..Max(p.y, q.y)}

\* The middle of a path of five points: from its second to its fourth point.
MiddleSegment(path) == PointsBetween(path[2], path[3]) \cup PointsBetween(path[3], path[4])

\* 20 * (i - (n - 1) / 2), a whole number.
OffsetAsClaimed(i, n) == (2 * i - (n - 1)) * 10

RECURSIVE OffsetSum(_, _)
OffsetSum(k, n) == IF k = 0 THEN 0 ELSE OffsetAsClaimed(k - 1, n) + OffsetSum(k - 1, n)

\* path is the path without offset, moved by d across its bend at its third
\* point.
DisplacedBy(path, plain, d) ==
  \/ path[3] = [x |-> plain[3].x + d, y |-> plain[3].y]
  \/ path[3] = [x |-> plain[3].x, y |-> plain[3].y + d]

\* C25 (as claimed): with n > 1 parallel edges between fixed end points, the
\* middle segment of the path of edge index i is displaced by
\* 20 * (i - (n - 1) / 2) from the path without offset, the middle segments
\* of two paths of different indices share no point, and the offsets over
\* i = 0..n-1 sum to zero.
C25_ParallelPathsApart ==
  (geoPc = "done" /\ geoArgs.totalParallelEdges > 1) =>
    LET n == geoArgs.totalParallelEdges
        plain == getMermaidStylePathWithSpacing(geoArgs.from, geoArgs.to, 0, 1)
    IN /\ \A i \in 1..n : DisplacedBy(geoOut[i], plain, OffsetAsClaimed(i - 1, n))
       /\ \A i, j \in 1..n :
            i # j => MiddleSegment(geoOut[i]) \cap MiddleSegment(geoOut[j]) = {}
       /\ OffsetSum(n, n) = 0

====
